---------------------------- MODULE Spec2Model ----------------------------
(***************************************************************************)
(* A model of the Collatinus Latin lemmatizer (package collatinus): the    *)
(* normalization toolkit, the loaders (morphos, models, lexicon,           *)
(* irregulars, assimilations, contractions), the raw matcher, the fallback *)
(* cascade and the inflection-table generator.                             *)
(*                                                                         *)
(* A Go string is modelled as a sequence of code points.  A code point is  *)
(* written as a short TLA+ string: "a" is the letter a, "<a->" is a with   *)
(* macron (U+0101), "<a^>" is a with breve (U+0103), "<^>" is the          *)
(* combining breve U+0306, "<->" the combining macron U+0304, "<ae>" and   *)
(* "<oe>" the ligatures, "<u.>" is u with dot below (U+1EE5), "<y^>" is    *)
(* U+045E.  Upper-case code points are written with an upper-case letter.  *)
(***************************************************************************)
EXTENDS Integers, Sequences, FiniteSets, TLC

VARIABLES
    l,      \* the Lemmatizer (collatinus.go:7-38), a record of its fields
    src,    \* the data files the Lemmatizer is (being) loaded from
    op,     \* the operation performed last
    arg,    \* its arguments
    ret     \* what it returned

vars == <<l, src, op, arg, ret>>

----------------------------------------------------------------------------
(* Strings.                                                                *)

Str(n, alphabet) == UNION {[1..k -> alphabet] : k \in 0..n}

HasPrefix(s, p) == Len(p) <= Len(s) /\ SubSeq(s, 1, Len(p)) = p

HasSuffix(s, p) == Len(p) <= Len(s) /\ SubSeq(s, Len(s) - Len(p) + 1, Len(s)) = p

Drop(s, n) == SubSeq(s, n + 1, Len(s))

Take(s, n) == SubSeq(s, 1, n)

RECURSIVE Flatten(_)
Flatten(ss) == IF ss = <<>> THEN <<>> ELSE Head(ss) \o Flatten(Tail(ss))

RECURSIVE Count(_, _)
\* strings.Count(s, sub) for a non-empty sub: non-overlapping occurrences.
Count(s, sub) ==
    IF Len(s) < Len(sub) THEN 0
    ELSE IF HasPrefix(s, sub) THEN 1 + Count(Drop(s, Len(sub)), sub)
    ELSE Count(Tail(s), sub)

RECURSIVE Index(_, _)
\* strings.Index(s, c) for a single code point c, 0-based; -1 when absent.
Index(s, c) ==
    IF s = <<>> THEN -1
    ELSE IF Head(s) = c THEN 0
    ELSE LET r == Index(Tail(s), c) IN IF r < 0 THEN -1 ELSE r + 1

RECURSIVE Split(_, _)
\* strings.Split(s, sep) for a single code point sep.
Split(s, sep) ==
    LET i == Index(s, sep)
    IN  IF i < 0 THEN <<s>>
        ELSE <<Take(s, i)>> \o Split(Drop(s, i + 1), sep)

MapSeq(s, F(_)) == [i \in 1..Len(s) |-> F(s[i])]

Range(s) == {s[i] : i \in 1..Len(s)}

----------------------------------------------------------------------------
(* Case of code points (package unicode).                                  *)

lowerOf ==
    ("A" :> "a") @@ ("E" :> "e") @@ ("I" :> "i") @@ ("O" :> "o") @@
    ("U" :> "u") @@ ("Y" :> "y") @@ ("J" :> "j") @@ ("V" :> "v") @@
    ("T" :> "t") @@ ("S" :> "s") @@ ("N" :> "n") @@ ("Q" :> "q") @@
    ("P" :> "p") @@ ("R" :> "r") @@
    ("<A->" :> "<a->") @@ ("<A^>" :> "<a^>") @@ ("<E->" :> "<e->") @@
    ("<E^>" :> "<e^>") @@ ("<I->" :> "<i->") @@ ("<I^>" :> "<i^>") @@
    ("<O->" :> "<o->") @@ ("<O^>" :> "<o^>") @@ ("<U->" :> "<u->") @@
    ("<U^>" :> "<u^>") @@ ("<Y->" :> "<y->") @@ ("<Y^>" :> "<y^>") @@
    ("<AE>" :> "<ae>") @@ ("<OE>" :> "<oe>")

IsUpper(c) == c \in DOMAIN lowerOf

IsLower(c) == \E u \in DOMAIN lowerOf : lowerOf[u] = c

ToLowerRune(c) == IF c \in DOMAIN lowerOf THEN lowerOf[c] ELSE c

ToUpperRune(c) ==
    IF IsLower(c) THEN CHOOSE u \in DOMAIN lowerOf : lowerOf[u] = c ELSE c

ToLower(s) == MapSeq(s, ToLowerRune)

----------------------------------------------------------------------------
(* Normalization toolkit (normalize.go).                                   *)

atoneReplacer ==
    ("<a->" :> "a") @@ ("<a^>" :> "a") @@ ("<e->" :> "e") @@ ("<e^>" :> "e") @@
    ("<i->" :> "i") @@ ("<i^>" :> "i") @@ ("<o->" :> "o") @@ ("<o^>" :> "o") @@
    ("<u->" :> "u") @@ ("<u^>" :> "u") @@ ("<y->" :> "y") @@ ("<y^>" :> "y") @@
    ("<A->" :> "A") @@ ("<A^>" :> "A") @@ ("<E->" :> "E") @@ ("<E^>" :> "E") @@
    ("<I->" :> "I") @@ ("<I^>" :> "I") @@ ("<O->" :> "O") @@ ("<O^>" :> "O") @@
    ("<U->" :> "U") @@ ("<U^>" :> "U") @@ ("<Y->" :> "Y") @@ ("<Y^>" :> "Y")

\* One code point through atoneReplacer, then the removal of U+0306.
AtoneRune(c) ==
    LET r == IF c \in DOMAIN atoneReplacer THEN atoneReplacer[c] ELSE c
    IN  IF r = "<^>" THEN <<>> ELSE <<r>>

\* Atone without its second step, the removal of the combining breve.
AtoneKeepsBreve(s) == MapSeq(s, LAMBDA c : IF c \in DOMAIN atoneReplacer THEN atoneReplacer[c] ELSE c)

Atone(s) == Flatten(MapSeq(s, AtoneRune))

deramiseReplacer ==
    ("J" :> <<"I">>) @@ ("j" :> <<"i">>) @@ ("v" :> <<"u">>) @@ ("V" :> <<"U">>) @@
    ("<ae>" :> <<"a", "e">>) @@ ("<AE>" :> <<"A", "e">>) @@
    ("<oe>" :> <<"o", "e">>) @@ ("<OE>" :> <<"O", "e">>) @@
    ("<u.>" :> <<"u">>)

DeramiseRune(c) == IF c \in DOMAIN deramiseReplacer THEN deramiseReplacer[c] ELSE <<c>>

Deramise(s) == Flatten(MapSeq(s, DeramiseRune))

NormalizeKey(s) == Atone(Deramise(s))

----------------------------------------------------------------------------
(* strconv.Atoi, errors ignored as every caller does (n, _ := Atoi(s)):    *)
(* the value of an optionally signed decimal numeral, 0 for anything else. *)

digitOf ==
    ("0" :> 0) @@ ("1" :> 1) @@ ("2" :> 2) @@ ("3" :> 3) @@ ("4" :> 4) @@
    ("5" :> 5) @@ ("6" :> 6) @@ ("7" :> 7) @@ ("8" :> 8) @@ ("9" :> 9)

RECURSIVE DecimalValue(_, _)
DecimalValue(s, acc) ==
    IF s = <<>> THEN acc ELSE DecimalValue(Tail(s), 10 * acc + digitOf[Head(s)])

IsNumeral(s) == s # <<>> /\ \A i \in 1..Len(s) : s[i] \in DOMAIN digitOf

Atoi(s) ==
    IF IsNumeral(s) THEN DecimalValue(s, 0)
    ELSE IF s # <<>> /\ Head(s) = "-" /\ IsNumeral(Tail(s)) THEN 0 - DecimalValue(Tail(s), 0)
    ELSE IF s # <<>> /\ Head(s) = "+" /\ IsNumeral(Tail(s)) THEN DecimalValue(Tail(s), 0)
    ELSE 0

----------------------------------------------------------------------------
(* The Lemmatizer (collatinus.go).  Go maps are functions with a finite    *)
(* domain; a pointer to a Model or a Lemma is its index in modelHeap or    *)
(* lemmaHeap, 0 being nil.                                                 *)

NoMap == [k \in {} |-> <<>>]

\* New, lines 43-54: the Lemmatizer before any file is read.
EmptyLemmatizer ==
    [ morphos      |-> << <<>> >>,
      models       |-> NoMap,
      lemmas       |-> NoMap,
      desinences   |-> NoMap,
      radicals     |-> NoMap,
      irregs       |-> NoMap,
      variables    |-> NoMap,
      assims       |-> NoMap,
      contractions |-> NoMap,
      modelHeap    |-> <<>>,
      lemmaHeap    |-> <<>> ]

\* Morpho taking m for an index that counts the descriptions from 0.
MorphoZeroBased(L, m) ==
    IF m < 0 \/ m + 1 >= Len(L.morphos) THEN <<>> ELSE L.morphos[m + 2]

\* l.morphos is the Go slice: morphos[1] here is index 0 there.
Morpho(L, m) ==
    IF m < 1 \/ m >= Len(L.morphos) THEN <<>> ELSE L.morphos[m + 1]

----------------------------------------------------------------------------
(* loadMorphos.                                                            *)

MorphosTerminator == <<"!", " ", "-", "-", "-", " ">>

RECURSIVE loadMorphosLines(_, _)
\* The scanner loop of loadMorphos over the lines of the file.
loadMorphosLines(morphos, lines) ==
    IF lines = <<>> THEN morphos
    ELSE LET line == Head(lines)
             idx  == Index(line, ":")
         IN  IF HasPrefix(line, MorphosTerminator) THEN morphos
             ELSE IF HasPrefix(line, <<"!">>) THEN loadMorphosLines(morphos, Tail(lines))
             ELSE IF idx < 0 THEN loadMorphosLines(morphos, Tail(lines))
             ELSE loadMorphosLines(Append(morphos, Drop(line, idx + 1)), Tail(lines))

loadMorphos(L, file) == [L EXCEPT !.morphos = loadMorphosLines(L.morphos, file)]

----------------------------------------------------------------------------
(* Models and endings (model.go).                                          *)

RECURSIVE TrimSpace(_)
TrimSpace(s) ==
    IF s # <<>> /\ Head(s) = " " THEN TrimSpace(Tail(s))
    ELSE IF s # <<>> /\ s[Len(s)] = " " THEN TrimSpace(Take(s, Len(s) - 1))
    ELSE s

\* The integers start, start+1, ..., end (none when end < start).
Interval(start, end) == [i \in 1..(end - start + 1) |-> start + i - 1]

\* ListIPart with the loop of line 18 stopping before end (i < end).
ListIPartExclusive(p) ==
    LET part == TrimSpace(p)
        idx  == Index(part, "-")
    IN  IF idx > 0
        THEN Interval(Atoi(Take(part, idx)), Atoi(Drop(part, idx + 1)) - 1)
        ELSE <<Atoi(part)>>

ListIPart(p) ==
    LET part == TrimSpace(p)
        idx  == Index(part, "-")
    IN  IF idx > 0
        THEN Interval(Atoi(Take(part, idx)), Atoi(Drop(part, idx + 1)))
        ELSE <<Atoi(part)>>

ListI(s) == Flatten(MapSeq(Split(s, ","), ListIPart))

newDesinence(grq, mn, rn, model) ==
    [Grq |-> grq, Gr |-> Atone(grq), MorphoNum |-> mn, RadNum |-> rn, Model |-> model]

\* cloneDesinence keeping the Model pointer of the ending it copies.
cloneKeepsModel(d, newModel) ==
    [Grq |-> d.Grq, Gr |-> d.Gr, MorphoNum |-> d.MorphoNum, RadNum |-> d.RadNum,
     Model |-> d.Model]

cloneDesinence(d, newModel) ==
    [Grq |-> d.Grq, Gr |-> d.Gr, MorphoNum |-> d.MorphoNum, RadNum |-> d.RadNum,
     Model |-> newModel]

\* The fields pos (and POS, EstUn) are left out: no ending, radical or
\* analysis depends on them.
newModel(name) ==
    [Name |-> name, parent |-> 0, RadicalRules |-> NoMap, Absents |-> <<>>,
     Desinences |-> NoMap]

hasDesinence(m, morphoNum) == morphoNum \in DOMAIN m.Desinences

isAbsent(m, a) == \E i \in 1..Len(m.Absents) : m.Absents[i] = a

DesinencesAt(m, morphoNum) ==
    IF morphoNum \in DOMAIN m.Desinences THEN m.Desinences[morphoNum] ELSE <<>>

RECURSIVE SortedSeq(_)
\* The elements of a finite set of integers in increasing order.
SortedSeq(S) ==
    IF S = {} THEN <<>>
    ELSE LET x == CHOOSE y \in S : \A z \in S : y <= z
         IN  <<x>> \o SortedSeq(S \ {x})

\* Go ranges over the map m.Desinences in an unspecified order; the slots
\* are taken in increasing order here.  The order only decides the order of
\* the endings of different slots within one list of the endings index.
AllDesinences(m) ==
    Flatten([i \in 1..Cardinality(DOMAIN m.Desinences) |->
                m.Desinences[SortedSeq(DOMAIN m.Desinences)[i]]])

\* append(m[k], v) on a map of slices.
MapAppend(m, k, v) ==
    IF k \in DOMAIN m THEN [m EXCEPT ![k] = Append(@, v)] ELSE (k :> <<v>>) @@ m

\* addDesinence, on the endings index.
addDesinence(index, d) == MapAppend(index, Deramise(d.Gr), d)

----------------------------------------------------------------------------
(* parseModel (the model compiler).  A line is the sequence eclats of its  *)
(* colon-separated fields, after variable substitution: the directive and  *)
(* a model name are TLA+ strings, every other field is a Go string.        *)
(* The state of the compilation of one block is st:                        *)
(*   st.m    the Model being built, st.suf the buffered suf: entries,      *)
(*   st.index the endings index l.desinences.                              *)
(* self is the pointer of the Model being built.                           *)

RECURSIVE addEndings(_, _)
\* m.Desinences[mn] = append(m.Desinences[mn], d); l.addDesinence(d)
\* for each pair <<mn, d>> of es, in order.
addEndings(st, es) ==
    IF es = <<>> THEN st
    ELSE addEndings([st EXCEPT !.m.Desinences = MapAppend(@, Head(es)[1], Head(es)[2]),
                               !.index = addDesinence(@, Head(es)[2])],
                    Tail(es))

Parent(L, m) == L.modelHeap[m.parent]

\* case "des", "des+": the endings the line declares (lines 185-212).
declaredEndings(self, eclats) ==
    LET morphoNums == ListI(eclats[2])
        radNum     == Atoi(eclats[3])
        desStrs    == Split(eclats[4], ";")
        desStr(i)  == IF i <= Len(desStrs) THEN desStrs[i] ELSE desStrs[Len(desStrs)]
        grq(g)     == IF g = <<"-">> THEN <<>> ELSE g
    IN  Flatten([i \in 1..Len(morphoNums) |->
            MapSeq(Split(desStr(i), ","),
                   LAMBDA g : <<morphoNums[i], newDesinence(grq(g), morphoNums[i], radNum, self)>>)])

\* case "des+": the parent's endings at the listed slots, cloned (215-223).
desPlusClones(L, self, st, eclats) ==
    IF eclats[1] = "des+" /\ st.m.parent # 0
    THEN LET morphoNums == ListI(eclats[2]) IN
         Flatten([i \in 1..Len(morphoNums) |->
            MapSeq(DesinencesAt(Parent(L, st.m), morphoNums[i]),
                   LAMBDA dp : <<morphoNums[i], cloneDesinence(dp, self)>>)])
    ELSE <<>>

\* case "sufd": every parent ending not absent in m, suffixed (263-277).
sufdEndings(L, self, st, suf) ==
    LET all  == AllDesinences(Parent(L, st.m))
        keep == SelectSeq(all, LAMBDA dp : ~isAbsent(st.m, dp.MorphoNum))
    IN  MapSeq(keep, LAMBDA dp :
            <<dp.MorphoNum, newDesinence(dp.Grq \o suf, dp.MorphoNum, dp.RadNum, self)>>)

\* One iteration of the loop over the lines of the block (166-279).
parseLine(L, self, st, eclats) ==
    LET n == Len(eclats) IN
    CASE eclats[1] = "modele" ->
            IF n > 1 THEN [st EXCEPT !.m.Name = eclats[2]] ELSE st
      [] eclats[1] = "pere" ->
            IF n > 1
            THEN [st EXCEPT !.m.parent =
                    IF eclats[2] \in DOMAIN L.models THEN L.models[eclats[2]] ELSE 0]
            ELSE st
      [] eclats[1] \in {"des", "des+"} ->
            IF n < 4 THEN st
            ELSE LET own == addEndings(st, declaredEndings(self, eclats))
                 IN  addEndings(own, desPlusClones(L, self, own, eclats))
      [] eclats[1] = "R" ->
            IF n < 3 THEN st
            ELSE [st EXCEPT !.m.RadicalRules = (Atoi(eclats[2]) :> eclats[3]) @@ @]
      [] eclats[1] = "abs" ->
            IF n > 1 THEN [st EXCEPT !.m.Absents = ListI(eclats[2])] ELSE st
      [] eclats[1] = "abs+" ->
            IF n > 1 THEN [st EXCEPT !.m.Absents = @ \o ListI(eclats[2])] ELSE st
      [] eclats[1] = "suf" ->
            IF n < 3 THEN st
            ELSE [st EXCEPT !.suf = @ \o
                    MapSeq(ListI(eclats[2]), LAMBDA mn : [suf |-> eclats[3], morpho |-> mn])]
      [] eclats[1] = "sufd" ->
            IF st.m.parent = 0 \/ n < 2 THEN st
            ELSE addEndings(st, sufdEndings(L, self, st, eclats[2]))
      [] OTHER -> st

RECURSIVE parseLines(_, _, _, _)
parseLines(L, self, st, lines) ==
    IF lines = <<>> THEN st
    ELSE parseLines(L, self, parseLine(L, self, st, Head(lines)), Tail(lines))

\* The inheritance loop skipping every slot as soon as the child has some
\* ending of its own (the test on the child made once, not per slot).
inheritedClonesIfEmpty(L, self, st) ==
    LET par   == Parent(L, st.m)
        slots == SortedSeq({mn \in DOMAIN par.Desinences : DOMAIN st.m.Desinences = {}})
    IN  Flatten([i \in 1..Len(slots) |->
            MapSeq(SelectSeq(par.Desinences[slots[i]],
                             LAMBDA dp : ~isAbsent(st.m, dp.MorphoNum)),
                   LAMBDA dp : <<slots[i], cloneDesinence(dp, self)>>)])

\* Inherit from parent: the slots the child has no ending for (287-300).
inheritedClones(L, self, st) ==
    LET par   == Parent(L, st.m)
        slots == SortedSeq({mn \in DOMAIN par.Desinences : ~hasDesinence(st.m, mn)})
    IN  Flatten([i \in 1..Len(slots) |->
            MapSeq(SelectSeq(par.Desinences[slots[i]],
                             LAMBDA dp : ~isAbsent(st.m, dp.MorphoNum)),
                   LAMBDA dp : <<slots[i], cloneDesinence(dp, self)>>)])

\* Inherit radical rules (303-309).
inheritRules(L, m) ==
    LET par  == Parent(L, m)
        used == {d.RadNum : d \in Range(AllDesinences(m))}
        more == {rn \in used : rn \notin DOMAIN m.RadicalRules /\ rn \in DOMAIN par.RadicalRules}
    IN  [rn \in DOMAIN m.RadicalRules \cup more |->
            IF rn \in DOMAIN m.RadicalRules THEN m.RadicalRules[rn] ELSE par.RadicalRules[rn]]

\* Inherit absents (312).
inheritAbsents(L, m) == Parent(L, m).Absents

\* Lines 287-313.
inherit(L, self, st) ==
    IF st.m.parent = 0 THEN st
    ELSE LET st1 == addEndings(st, inheritedClones(L, self, st))
         IN  [st1 EXCEPT !.m.RadicalRules = inheritRules(L, st1.m),
                         !.m.Absents = inheritAbsents(L, st1.m)]

RECURSIVE sufDesOneByOne(_, _, _)
\* The suffixed endings when each suf entry is applied to the endings as
\* the entries before it left them.
sufDesOneByOne(self, m, entries) ==
    IF entries = <<>> THEN <<>>
    ELSE LET se   == Head(entries)
             new  == MapSeq(DesinencesAt(m, se.morpho), LAMBDA d :
                        <<d.MorphoNum, newDesinence(d.Grq \o se.suf, d.MorphoNum, d.RadNum, self)>>)
             m2   == IF new = <<>> THEN m
                     ELSE [m EXCEPT !.Desinences =
                             [@ EXCEPT ![se.morpho] = @ \o MapSeq(new, LAMBDA e : e[2])]]
         IN  new \o sufDesOneByOne(self, m2, Tail(entries))

\* The loop of lines 317-330 appending each new ending to m.Desinences at
\* once: a later suf entry suffixes the endings an earlier one produced.
sufDesSliceAtOnce(self, st) == sufDesOneByOne(self, st.m, st.suf)

\* Apply the suffixes collected from "suf" directives (316-334).
sufDesSlice(self, st) ==
    Flatten(MapSeq(st.suf, LAMBDA se :
        MapSeq(DesinencesAt(st.m, se.morpho), LAMBDA d :
            <<d.MorphoNum, newDesinence(d.Grq \o se.suf, d.MorphoNum, d.RadNum, self)>>)))

\* parseModel up to line 313: the directives read, the parent inherited
\* from, the suf entries still to apply.
beforeSuffixes(L, self, lines) ==
    LET st0 == [m |-> newModel(""), suf |-> <<>>, index |-> L.desinences]
        st1 == parseLines(L, self, st0, lines)
    IN  inherit(L, self, st1)

\* parseModel: the compiled state of the block; the Model is st.m.
parseModel(L, self, lines) ==
    LET st2 == beforeSuffixes(L, self, lines)
    IN  addEndings(st2, sufDesSlice(self, st2))

\* flushBlock in loadModels (105-114).  The Model built is put on the heap
\* at the pointer self even when it has no name: its endings are already in
\* the endings index and point to it.
flushBlock(L, block) ==
    IF block = <<>> THEN L
    ELSE LET self == Len(L.modelHeap) + 1
             st   == parseModel(L, self, block)
         IN  [L EXCEPT !.modelHeap = Append(@, st.m),
                       !.desinences = st.index,
                       !.models = IF st.m.Name = "" THEN @ ELSE (st.m.Name :> self) @@ @]

RECURSIVE loadModelLines(_, _, _)
\* The loop of loadModels over the lines of the file (116-150), the blank
\* lines, comments and variable lines already dropped.
loadModelLines(L, block, lines) ==
    IF lines = <<>> THEN flushBlock(L, block)
    ELSE IF Head(lines)[1] = "modele" /\ block # <<>>
         THEN loadModelLines(flushBlock(L, block), <<Head(lines)>>, Tail(lines))
         ELSE loadModelLines(L, Append(block, Head(lines)), Tail(lines))

loadModels(L, file) == loadModelLines(L, <<>>, file)

----------------------------------------------------------------------------
(* substituteVars (part_000, 344-361).  A variable name is the Go string   *)
(* from a $ up to the next ; or the end of the line, the $ included, as    *)
(* loadModels stores it (line 133).                                        *)

\* strings.Contains(line, "$").
hasVar(line) == Index(line, "$") >= 0

\* varName of lines 346-353.
varName(line) ==
    LET d    == Index(line, "$")
        rest == Drop(line, d)
        f    == Index(rest, ";")
    IN  IF f < 0 THEN rest ELSE Take(rest, f)

\* strings.Replace(line, varName, val, 1): the first occurrence of the
\* name is the one at the first $.
replaceVar(line, val) ==
    LET d == Index(line, "$")
    IN  Take(line, d) \o val \o Drop(line, d + Len(varName(line)))

\* The loop of line 345 goes round once more: a $ is left and its name is
\* known.
loops(L, line) == hasVar(line) /\ varName(line) \in DOMAIN L.variables

\* The line after one more round of the loop.
substituteOnce(L, line) == replaceVar(line, L.variables[varName(line)])

----------------------------------------------------------------------------
(* Communes (normalize.go): the regular expressions of                     *)
(* communesReplacements applied one after the other, each by               *)
(* ReplaceAllString (leftmost matches, not overlapping).                   *)

\* regexp "v" -> rep.
ReplaceAll(s, v, rep) == Flatten(MapSeq(s, LAMBDA c : IF c = v THEN rep ELSE <<c>>))

RECURSIVE ReplaceAfter(_, _, _, _)
\* regexp "([^excl])v" -> "${1}rep": a match takes the code point before v.
ReplaceAfter(s, excl, v, rep) ==
    IF Len(s) < 2 THEN s
    ELSE IF s[1] \notin excl /\ s[2] = v
         THEN <<s[1]>> \o rep \o ReplaceAfter(Drop(s, 2), excl, v, rep)
         ELSE <<s[1]>> \o ReplaceAfter(Tail(s), excl, v, rep)

\* regexp "^v" -> rep.
ReplaceStart(s, v, rep) == IF s # <<>> /\ Head(s) = v THEN rep \o Tail(s) ELSE s

communesReplacements(s) ==
    LET s1 == ReplaceAll(s, "a", <<"<a->", "<^>">>)
        s2 == ReplaceAfter(s1, {"<a->", "<a^>", "<o->"}, "e", <<"<e->", "<^>">>)
        s3 == ReplaceStart(s2, "e", <<"<e->", "<^>">>)
        s4 == ReplaceAll(s3, "i", <<"<i->", "<^>">>)
        s5 == ReplaceAll(s4, "o", <<"<o->", "<^>">>)
        s6 == ReplaceAfter(s5, {"<a->", "<e->", "q"}, "u", <<"<u->", "<^>">>)
        s7 == ReplaceStart(s6, "u", <<"<u->", "<^>">>)
        s8 == ReplaceAfter(s7, {"<a->"}, "y", <<"<y->", "<^>">>)
    IN  ReplaceStart(s8, "y", <<"<y->", "<^>">>)

Communes(g) ==
    IF g = <<>> THEN g
    ELSE LET maj   == IsUpper(Head(g))
             lower == communesReplacements(ToLower(g))
         IN  IF maj /\ Len(lower) > 0
             THEN <<ToUpperRune(Head(lower))>> \o Tail(lower)
             ELSE lower

----------------------------------------------------------------------------
(* The lexicon (lemma.go, loadLexicon, buildRadicals).  A line of          *)
(* lemmes.la is the sequence parts of its |-separated fields; the model    *)
(* name is a TLA+ string, the other fields are Go strings.  The fields     *)
(* IndMorph, POS, NbOcc, renvoi and translations are left out: no radical, *)
(* ending or analysis depends on them.                                     *)

\* strings.SplitN(s, sep, 2).
SplitN2(s, sep) ==
    LET i == Index(s, sep)
    IN  IF i < 0 THEN <<s>> ELSE <<Take(s, i), Drop(s, i + 1)>>

\* oteNh: <<g without its homonym digit, the homonym number>>.
oteNh(g) ==
    IF g = <<>> THEN <<g, 0>>
    ELSE LET last == g[Len(g)] IN
         IF last \in DOMAIN digitOf /\ digitOf[last] > 0
         THEN <<Take(g, Len(g) - 1), digitOf[last]>>
         ELSE <<g, 0>>

newRadical(stem, num, lemma) ==
    [Grq |-> Communes(stem), Gr |-> Atone(stem), Num |-> num, Lemma |-> lemma]

\* newLemma, lines 120-138: the explicit radicals of field i (3 or 4 here,
\* 2 or 3 in Go), radical number i - 2.
explicitRadicals(parts, i, self) ==
    IF i > Len(parts) \/ parts[i] = <<>> THEN <<>>
    ELSE MapSeq(SelectSeq(Split(parts[i], ","), LAMBDA radStr : radStr # <<>>),
                LAMBDA radStr : newRadical(radStr, i - 2, self))

\* newLemma for a line of at least five fields; self is the Lemma's pointer.
newLemma(parts, self) ==
    LET keyGrq   == SplitN2(parts[1], "=")
        rawKey   == keyGrq[1]
        rawGrq   == IF Len(keyGrq) > 1 THEN keyGrq[2] ELSE rawKey
        grqForms == Split(rawGrq, ",")
        grqNh    == oteNh(grqForms[1])
        rads(i)  == explicitRadicals(parts, i, self)
    IN  [ Key              |-> NormalizeKey(rawKey),
          Grq              |-> grqNh[1],
          Gr               |-> Atone(grqNh[1]),
          HomonymNum       |-> grqNh[2],
          altGrqs          |-> SelectSeq(MapSeq(Tail(grqForms), TrimSpace), LAMBDA alt : alt # <<>>),
          modelName        |-> parts[2],
          model            |-> 0,
          radicals         |-> [i \in {n \in {1, 2} : rads(n + 2) # <<>>} |-> rads(i + 2)],
          irregs           |-> <<>>,
          morphosIrregExcl |-> <<>> ]

\* stemFromGrq without the TrimSuffix of line 402: a trailing combining
\* breve counts as the last code point of the form.
stemFromGrqKeepsBreve(grq, rule) ==
    IF rule = <<"K">> THEN grq
    ELSE LET ruleParts == SplitN2(rule, ",")
             n         == Atoi(ruleParts[1])
             oter      == IF n > Len(grq) THEN Len(grq) ELSE n
             stem      == Take(grq, Len(grq) - oter)
         IN  IF Len(ruleParts) > 1 /\ ruleParts[2] # <<"0">>
             THEN stem \o ruleParts[2] ELSE stem

\* stemFromGrq; the rule is the Go string of the R: line ("K", "n", "n,suf").
stemFromGrq(grq0, rule) ==
    LET grq == IF HasSuffix(grq0, <<"<^>">>) THEN Take(grq0, Len(grq0) - 1) ELSE grq0
    IN  IF rule = <<"K">> THEN grq
        ELSE LET ruleParts == SplitN2(rule, ",")
                 n         == Atoi(ruleParts[1])
                 oter      == IF n > Len(grq) THEN Len(grq) ELSE n
                 stem      == Take(grq, Len(grq) - oter)
             IN  IF Len(ruleParts) > 1 /\ ruleParts[2] # <<"0">>
                 THEN stem \o ruleParts[2] ELSE stem

\* addRadical, on the radicals index.
addRadical(index, r) == MapAppend(index, Deramise(r.Gr), r)

RECURSIVE addRadicals(_, _)
addRadicals(index, rs) ==
    IF rs = <<>> THEN index ELSE addRadicals(addRadical(index, Head(rs)), Tail(rs))

\* buildRadicals, 436-455: the radicals computed from the rules of the
\* model for the radical numbers the line gives no explicit radical for.
\* Go ranges over the map of rules in an unspecified order; the numbers are
\* taken in increasing order here (the order of the radicals of different
\* numbers within one list of the radicals index).
computedRadicals(lemma, m, self) ==
    LET rns == SortedSeq({rn \in DOMAIN m.RadicalRules : rn \notin DOMAIN lemma.radicals})
    IN  [i \in 1..Len(rns) |->
            MapSeq(<<lemma.Grq>> \o lemma.altGrqs,
                   LAMBDA grqForm : newRadical(stemFromGrq(grqForm, m.RadicalRules[rns[i]]), rns[i], self))]

\* buildRadicals for the Lemma at pointer self, already on the heap.
buildRadicals(L, self) ==
    LET lemma == L.lemmaHeap[self] IN
    IF lemma.model = 0 THEN L
    ELSE LET m        == L.modelHeap[lemma.model]
             explicit == Flatten([i \in 1..Cardinality(DOMAIN lemma.radicals) |->
                            lemma.radicals[SortedSeq(DOMAIN lemma.radicals)[i]]])
             computed == computedRadicals(lemma, m, self)
             rns      == SortedSeq({rn \in DOMAIN m.RadicalRules : rn \notin DOMAIN lemma.radicals})
             radicals == [rn \in DOMAIN lemma.radicals \cup Range(rns) |->
                            IF rn \in DOMAIN lemma.radicals THEN lemma.radicals[rn]
                            ELSE computed[CHOOSE i \in 1..Len(rns) : rns[i] = rn]]
         IN  [L EXCEPT !.lemmaHeap[self].radicals = radicals,
                       !.radicals = addRadicals(@, explicit \o Flatten(computed))]

\* One iteration of the loop of loadLexicon (379-393).
loadLexiconLine(L, parts) ==
    IF Len(parts) < 5 THEN L
    ELSE LET self  == Len(L.lemmaHeap) + 1
             lemma == [newLemma(parts, self) EXCEPT !.model =
                          IF parts[2] \in DOMAIN L.models THEN L.models[parts[2]] ELSE 0]
         IN  buildRadicals([L EXCEPT !.lemmaHeap = Append(@, lemma),
                                     !.lemmas = (lemma.Key :> self) @@ @],
                           self)

\* Lemma: the pointer l.lemmas[NormalizeKey(key)], nil (0) for a missing key.
Lemma(L, key) ==
    IF NormalizeKey(key) \in DOMAIN L.lemmas THEN L.lemmas[NormalizeKey(key)] ELSE 0

RECURSIVE loadLexicon(_, _)
loadLexicon(L, file) ==
    IF file = <<>> THEN L ELSE loadLexicon(loadLexiconLine(L, Head(file)), Tail(file))

\* addIrreg.
addIrreg(lemma, irr) ==
    [lemma EXCEPT !.irregs = Append(@, irr),
                  !.morphosIrregExcl = IF irr.Exclusive THEN @ \o irr.Morphos ELSE @]

\* isExclusiveIrreg never finding the slot: the filter of line 137 left out.
isExclusiveIrregNever(lemma, nm) == FALSE

isExclusiveIrreg(lemma, nm) ==
    \E i \in 1..Len(lemma.morphosIrregExcl) : lemma.morphosIrregExcl[i] = nm

\* irregAt: <<Grq, Exclusive>> of the first irregular listing slot i.
irregAt(lemma, i) ==
    LET hits == SelectSeq(lemma.irregs, LAMBDA ir : \E k \in 1..Len(ir.Morphos) : ir.Morphos[k] = i)
    IN  IF hits = <<>> THEN <<<<>>, FALSE>> ELSE <<hits[1].Grq, hits[1].Exclusive>>

RadicalsAt(lemma, r) == IF r \in DOMAIN lemma.radicals THEN lemma.radicals[r] ELSE <<>>

\* One iteration of the loop of loadIrregs (536-564); parts are the
\* colon-separated fields of the line.
loadIrregsLine(L, parts) ==
    IF Len(parts) < 3 THEN L
    ELSE LET exclusive == HasSuffix(parts[1], <<"*">>)
             grq       == IF exclusive THEN Take(parts[1], Len(parts[1]) - 1) ELSE parts[1]
             gr        == Atone(grq)
             lemmaKey  == Deramise(parts[2])
         IN  IF lemmaKey \notin DOMAIN L.lemmas THEN L
             ELSE LET lemma == L.lemmas[lemmaKey]
                      irr   == [Grq |-> grq, Gr |-> gr, Exclusive |-> exclusive,
                                Lemma |-> lemma, Morphos |-> ListI(parts[3])]
                  IN  [L EXCEPT !.irregs = MapAppend(@, Deramise(gr), irr),
                                !.lemmaHeap[lemma] = addIrreg(@, irr)]

RECURSIVE loadIrregs(_, _)
loadIrregs(L, file) ==
    IF file = <<>> THEN L ELSE loadIrregs(loadIrregsLine(L, Head(file)), Tail(file))

RECURSIVE loadAssims(_, _)
\* loadAssims; a line is <<line[:idx], line[idx+1:]>> for its first colon.
loadAssims(L, file) ==
    IF file = <<>> THEN L
    ELSE loadAssims([L EXCEPT !.assims = (Atone(Head(file)[1]) :> Atone(Head(file)[2])) @@ @],
                    Tail(file))

RECURSIVE loadContractions(_, _)
loadContractions(L, file) ==
    IF file = <<>> THEN L
    ELSE loadContractions([L EXCEPT !.contractions = (Head(file)[1] :> Head(file)[2]) @@ @],
                          Tail(file))

\* New: the files of dataDir read in the order of lines 56-77 (the
\* translations, which no query of this model reads, left out).
New(dataDir) ==
    CHOOSE l6 \in
        {loadIrregs(l5, dataDir.irregs) : l5 \in
        {loadLexicon(l4, dataDir.lemmes) : l4 \in
        {loadModels(l3, dataDir.models) : l3 \in
        {loadMorphos(l2, dataDir.morphos) : l2 \in
        {loadContractions(l1, dataDir.contractions) : l1 \in
        {loadAssims(EmptyLemmatizer, dataDir.assims)}}}}}} : TRUE

----------------------------------------------------------------------------
(* The raw matcher (lemmatize.go, lemmatizeRaw).  A result is the Go map   *)
(* from *Lemma to []Analysis.  An Analysis carries, besides its three Go   *)
(* fields, history fields that no operator reads:                          *)
(*   regular  it was built from a radical and an ending (line 154), not    *)
(*            by the irregular probe (line 72);                            *)
(*   emitted  its FormWithMarks when it was built;                         *)
(*   folds    the number of ii recursions that handed it up (line 119);    *)
(*   rad, des the Grq of the radical and of the ending it was built from.  *)
(* A call returns [res, cut, depth, ii, matched, calls]: the map; whether  *)
(* some nested call was refused because MaxDepth calls of lemmatizeMEtape  *)
(* or MaxDoubleI calls of lemmatizeRaw were already open; the greatest     *)
(* number of calls of lemmatizeMEtape, and of lemmatizeRaw, open at once;  *)
(* whether the raw matcher, called at some stage of the cascade (line      *)
(* 183), returned a map that was not empty; the calls lemmatizeMEtape made *)
(* to itself, each a record [from, to] of the arguments of the caller and  *)
(* of the callee; the splits the loop of lemmatizeRaw went through, each a *)
(* record [form, stem, ending, ii] of the form split, the two parts, and   *)
(* whether the ii recursion was made at that split.                        *)

MaxDepth == 12

MaxDoubleI == 4

Max(a, b) == IF a >= b THEN a ELSE b

\* result[nl] = append(result[nl], lsl...) for every nl, lsl of nm.
mergeInto(mm, nm) ==
    [k \in DOMAIN mm \cup DOMAIN nm |->
        (IF k \in DOMAIN mm THEN mm[k] ELSE <<>>) \o (IF k \in DOMAIN nm THEN nm[k] ELSE <<>>)]

RECURSIVE appendAnalyses(_, _)
\* result[lemma] = append(result[lemma], an) for each <<lemma, an>>, in order.
appendAnalyses(result, pairs) ==
    IF pairs = <<>> THEN result
    ELSE appendAnalyses(MapAppend(result, Head(pairs)[1], Head(pairs)[2]), Tail(pairs))

newAnalysis(L, grq, mn, regular) ==
    [FormWithMarks |-> grq, MorphoDescription |-> Morpho(L, mn), MorphoIndex |-> mn,
     regular |-> regular, emitted |-> grq, folds |-> 0, rad |-> <<>>, des |-> <<>>]

\* The Analysis an of lines 154-158, built from rad and de.
builtFrom(an, rad, de) == [an EXCEPT !.rad = rad.Grq, !.des = de.Grq]

\* 1. Check irregular forms (69-80).
irregularAnalyses(L, form) ==
    IF form \notin DOMAIN L.irregs THEN <<>>
    ELSE Flatten(MapSeq(L.irregs[form], LAMBDA irr :
            MapSeq(irr.Morphos, LAMBDA mn : <<irr.Lemma, newAnalysis(L, irr.Grq, mn, FALSE)>>)))

\* The counts of lines 56-63, on the form as given.
vowelCounts(form) ==
    LET lower == ToLower(form) IN
    [v  |-> Count(lower, <<"v">>),
     ae |-> Count(lower, <<"<ae>">>) - (IF HasSuffix(lower, <<"<ae>">>) THEN 1 ELSE 0),
     oe |-> Count(lower, <<"<oe>">>)]

\* Vowel-count consistency check (145-149).
vowelsOK(cnt, rad, de) ==
    LET radGrqLower == ToLower(rad.Grq)
        desGrqLower == ToLower(de.Grq)
    IN  /\ (cnt.v = 0 \/ cnt.v = Count(radGrqLower, <<"v">>) + Count(desGrqLower, <<"v">>))
        /\ (cnt.oe = 0 \/ cnt.oe = Count(radGrqLower, <<"<o->", "e">>))
        /\ (cnt.ae = 0 \/ cnt.ae = Count(radGrqLower, <<"<a->", "e">>)
                                   + Count(radGrqLower, <<"p", "r", "<a^>", "e">>))

\* The analysis given the forms without their quantity marks.
regularFormAtone(rad, de) == rad.Gr \o de.Gr

\* The FormWithMarks of a regular analysis (155).
regularForm(rad, de) == rad.Grq \o de.Grq

\* The filters of lines 131-152.
regularMatch(L, cnt, rad, de) ==
    LET lemma == L.lemmaHeap[rad.Lemma] IN
    /\ de.Model = lemma.model
    /\ de.RadNum = rad.Num
    /\ ~isExclusiveIrreg(lemma, de.MorphoNum)
    /\ ~(de.MorphoNum < 1 \/ de.MorphoNum >= Len(L.morphos))
    /\ vowelsOK(cnt, rad, de)

\* The loops of lines 128-161.
regularAnalyses(L, cnt, rads, des) ==
    Flatten(MapSeq(rads, LAMBDA rad :
        MapSeq(SelectSeq(des, LAMBDA de : regularMatch(L, cnt, rad, de)),
               LAMBDA de : <<rad.Lemma,
                             builtFrom(newAnalysis(L, regularForm(rad, de), de.MorphoNum, TRUE),
                                       rad, de)>>)))

\* needDoubleI true when exactly one of its three cases holds.
needDoubleIExactlyOne(r, d) ==
    LET rEndsI    == Len(r) > 0 /\ r[Len(r)] = "i"
        rEndsII   == HasSuffix(r, <<"i", "i">>)
        dStartsI  == Len(d) > 0 /\ d[1] = "i"
        dStartsII == HasPrefix(d, <<"i", "i">>)
        case1     == Len(d) = 0 /\ rEndsI
        case2     == dStartsI /\ ~dStartsII /\ ~rEndsI
        case3     == rEndsI /\ ~rEndsII /\ ~dStartsI
    IN  Cardinality({c \in {<<1, case1>>, <<2, case2>>, <<3, case3>>} : c[2]}) = 1

\* needDoubleI without its tests on "ii": an i is inserted next to an i
\* whatever the length of the run of i it belongs to.
needDoubleIAnyRun(r, d) ==
    LET rEndsI   == Len(r) > 0 /\ r[Len(r)] = "i"
        dStartsI == Len(d) > 0 /\ d[1] = "i"
    IN  \/ (Len(d) = 0 /\ rEndsI)
        \/ (dStartsI /\ ~rEndsI)
        \/ (rEndsI /\ ~dStartsI)

\* Lines 98-105.
needDoubleI(r, d) ==
    LET rEndsI    == Len(r) > 0 /\ r[Len(r)] = "i"
        rEndsII   == HasSuffix(r, <<"i", "i">>)
        dStartsI  == Len(d) > 0 /\ d[1] = "i"
        dStartsII == HasPrefix(d, <<"i", "i">>)
    IN  \/ (Len(d) = 0 /\ rEndsI)
        \/ (dStartsI /\ ~dStartsII /\ ~rEndsI)
        \/ (rEndsI /\ ~rEndsII /\ ~dStartsI)

\* Lines 114-117 on one Analysis: the code point of index rLen-1 deleted.
removeExtraI(an, rLen) ==
    LET grq == an.FormWithMarks IN
    [an EXCEPT !.FormWithMarks = IF rLen > 0 /\ rLen - 1 < Len(grq)
                                 THEN Take(grq, rLen - 1) \o Drop(grq, rLen)
                                 ELSE grq,
               !.folds = @ + 1]

\* Lines 112-118 on the map nm.
removeExtraIs(nm, rLen) ==
    [nl \in DOMAIN nm |-> MapSeq(nm[nl], LAMBDA an : removeExtraI(an, rLen))]

NoCall ==
    [res |-> NoMap, cut |-> FALSE, depth |-> 0, ii |-> 0, matched |-> FALSE, calls |-> {},
     splits |-> {}]

Refused ==
    [res |-> NoMap, cut |-> TRUE, depth |-> 0, ii |-> 0, matched |-> FALSE, calls |-> {},
     splits |-> {}]

\* mm = the result of the second call, as line 245 assigns it, in place
\* of the merging loops of lines 186-191, 205-210, 216-221, 225-230: the
\* result of b takes the place of that of a.
afterAssigning(a, b) ==
    [res |-> b.res,
     cut |-> a.cut \/ b.cut,
     depth |-> Max(a.depth, b.depth), ii |-> Max(a.ii, b.ii),
     matched |-> a.matched \/ b.matched, calls |-> a.calls \cup b.calls,
     splits |-> a.splits \cup b.splits]

\* The calls a then b were made, the result of b appended to that of a.
after(a, b) ==
    [res |-> mergeInto(a.res, b.res), cut |-> a.cut \/ b.cut,
     depth |-> Max(a.depth, b.depth), ii |-> Max(a.ii, b.ii),
     matched |-> a.matched \/ b.matched, calls |-> a.calls \cup b.calls,
     splits |-> a.splits \cup b.splits]

\* The call of lemmatizeRaw whose work and nested calls were x returns.
returnRaw(x) == [x EXCEPT !.ii = @ + 1]

\* mm := l.lemmatizeRaw(form) of line 183, x being what the call returned.
rawAtStage4(x) == [x EXCEPT !.matched = DOMAIN x.res # {}]

\* The call of lemmatizeMEtape whose work and nested calls were x returns.
return(x) == [x EXCEPT !.depth = @ + 1]

RECURSIVE lemmatizeRaw(_, _, _)
RECURSIVE lemmatizeRawSplits(_, _, _, _, _, _)

\* The split r, d of form gone through, the ii recursion made or not.
split(acc, form, r, d, recursed) ==
    [acc EXCEPT !.splits = @ \cup {[form |-> form, stem |-> r, ending |-> d, ii |-> recursed]}]

\* The loop of lines 84-162 from the split i on; acc is result so far.
lemmatizeRawSplits(L, form, cnt, i, fuel, acc) ==
    IF i > Len(form) THEN acc
    ELSE LET r == Take(form, i)
             d == Drop(form, i)
         IN  IF r \notin DOMAIN L.radicals
             THEN lemmatizeRawSplits(L, form, cnt, i + 1, fuel, split(acc, form, r, d, FALSE))
             ELSE LET nm     == lemmatizeRaw(L, r \o <<"i">> \o d, fuel - 1)
                      folded == IF needDoubleI(r, d)
                                THEN after(split(acc, form, r, d, TRUE),
                                           [nm EXCEPT !.res = removeExtraIs(@, Len(r))])
                                ELSE split(acc, form, r, d, FALSE)
                      found  == IF d \in DOMAIN L.desinences
                                THEN appendAnalyses(folded.res,
                                        regularAnalyses(L, cnt, L.radicals[r], L.desinences[d]))
                                ELSE folded.res
                  IN  lemmatizeRawSplits(L, form, cnt, i + 1, fuel, [folded EXCEPT !.res = found])

\* lemmatizeRaw; fuel is the number of calls of it that may still be opened.
lemmatizeRaw(L, form0, fuel) ==
    IF fuel = 0 THEN Refused
    ELSE LET cnt  == vowelCounts(form0)
             form == Deramise(form0)
             acc  == [NoCall EXCEPT !.res = appendAnalyses(NoMap, irregularAnalyses(L, form))]
         IN  returnRaw(lemmatizeRawSplits(L, form, cnt, 0, fuel, acc))

----------------------------------------------------------------------------
(* The fallback cascade (lemmatize.go, lemmatizeMEtape).  assim, desassim  *)
(* and decontracte range over a Go map and return at the first key that    *)
(* matches; the order of a range over a map is unspecified and differs     *)
(* from one range to the next, so each is the set of the strings it may    *)
(* return, and lemmatizeMEtape is the set of the results it may return.    *)

enclitics == <<<<"n", "e">>, <<"q", "u", "e">>, <<"u", "e">>, <<"v", "e">>, <<"s", "t">>>>

assim(L, a) ==
    LET hits == {prefix \in DOMAIN L.assims : HasPrefix(a, prefix)}
    IN  IF hits = {} THEN {a}
        ELSE {L.assims[prefix] \o Drop(a, Len(prefix)) : prefix \in hits}

desassim(L, a) ==
    LET hits == {unassim \in DOMAIN L.assims : HasPrefix(a, L.assims[unassim])}
    IN  IF hits = {} THEN {a}
        ELSE {unassim \o Drop(a, Len(L.assims[unassim])) : unassim \in hits}

decontracte(L, d) ==
    LET hits == {suffix \in DOMAIN L.contractions : HasSuffix(d, suffix)}
    IN  IF hits = {} THEN {d}
        ELSE {Take(d, Len(d) - Len(suffix)) \o L.contractions[suffix] : suffix \in hits}

\* mm = <the result x of a nested call>: the calls made so far stay made.
assigned(mm, x) == [after(mm, x) EXCEPT !.res = x.res]

RECURSIVE lemmatizeMEtape(_, _, _, _, _)
RECURSIVE tryEnclitics(_, _, _, _, _, _)

\* The arguments of a call of lemmatizeMEtape.
etapeArgs(form, sentenceStart, etape) ==
    [form |-> form, sentenceStart |-> sentenceStart, etape |-> etape]

\* The arguments of the call of line 186 with sentenceStart passed on.
lowercaseRetryAtSentenceStart(form) == etapeArgs(ToLower(form), TRUE, 4)

\* The arguments of the call of line 186: the lowercased form, false, 4.
lowercaseRetry(form) == etapeArgs(ToLower(form), FALSE, 4)

\* l.lemmatizeMEtape(to.form, to.sentenceStart, to.etape) called from the
\* call whose arguments are from.
callEtape(L, from, to, fuel) ==
    {[x EXCEPT !.calls = @ \cup {[from |-> from, to |-> to]}] :
        x \in lemmatizeMEtape(L, to.form, to.sentenceStart, to.etape, fuel - 1)}

\* The loop of lines 238-251 without the test of lines 239-241: every
\* enclitic that is a suffix of the form is stripped, the last one wins.
tryEncliticsNoBreak(L, form, sentenceStart, k, fuel, mm) ==
    IF k > Len(enclitics) THEN {mm}
    ELSE LET suf == enclitics[k] IN
         IF ~HasSuffix(form, suf) THEN tryEnclitics(L, form, sentenceStart, k + 1, fuel, mm)
         ELSE LET sf == Take(form, Len(form) - Len(suf))
                  nf == IF suf = <<"s", "t">> THEN sf \o <<"s">> ELSE sf
              IN  UNION {tryEnclitics(L, form, sentenceStart, k + 1, fuel, assigned(mm, x)) :
                            x \in callEtape(L, etapeArgs(form, sentenceStart, 1),
                                            etapeArgs(nf, sentenceStart, 1), fuel)}

\* case 1, the loop of lines 238-251 from the k-th enclitic on.
tryEnclitics(L, form, sentenceStart, k, fuel, mm) ==
    IF k > Len(enclitics) \/ DOMAIN mm.res # {} THEN {mm}
    ELSE LET suf == enclitics[k] IN
         IF ~HasSuffix(form, suf) THEN tryEnclitics(L, form, sentenceStart, k + 1, fuel, mm)
         ELSE LET sf == Take(form, Len(form) - Len(suf))
                  nf == IF suf = <<"s", "t">> THEN sf \o <<"s">> ELSE sf
              IN  UNION {tryEnclitics(L, form, sentenceStart, k + 1, fuel, assigned(mm, x)) :
                            x \in callEtape(L, etapeArgs(form, sentenceStart, 1),
                                            etapeArgs(nf, sentenceStart, 1), fuel)}

\* case 2 without the return of line 222: the de-assimilated form is
\* lemmatized after the assimilated one.
assimilationsNoReturn(L, form, sentenceStart, fuel, mm) ==
    LET from == etapeArgs(form, sentenceStart, 2)
        assimilated ==
            UNION {IF fa # form
                   THEN {after(mm, x) : x \in callEtape(L, from, etapeArgs(fa, sentenceStart, 3), fuel)}
                   ELSE {mm} : fa \in assim(L, form)}
    IN  UNION {UNION {IF fd # form
                      THEN {after(m1, x) :
                              x \in callEtape(L, from, etapeArgs(fd, sentenceStart, 3), fuel)}
                      ELSE {m1} : fd \in desassim(L, form)}
               : m1 \in assimilated}

\* case 2, lines 212-232: the assimilated form, or else the de-assimilated
\* one, lemmatized at stage 3 and merged into mm.
assimilations(L, form, sentenceStart, fuel, mm) ==
    LET from == etapeArgs(form, sentenceStart, 2) IN
    UNION {IF fa # form
           THEN {after(mm, x) : x \in callEtape(L, from, etapeArgs(fa, sentenceStart, 3), fuel)}
           ELSE UNION {IF fd # form
                       THEN {after(mm, x) :
                               x \in callEtape(L, from, etapeArgs(fd, sentenceStart, 3), fuel)}
                       ELSE {mm} : fd \in desassim(L, form)}
           : fa \in assim(L, form)}

\* The test of line 256 without len(mm) == 0: the capitalized form is
\* lemmatized whatever stage 1 found.
needCapitalizedWhateverFound(mm, form) == Len(form) > 0 /\ IsLower(form[1])

\* The test of line 256.
needCapitalized(mm, form) == DOMAIN mm.res = {} /\ Len(form) > 0 /\ IsLower(form[1])

\* The switch of lines 199-261, mm being the result of the call of line 197.
etapeSwitch(L, form, sentenceStart, etape, fuel, mm) ==
    LET from == etapeArgs(form, sentenceStart, etape) IN
    CASE etape = 3 ->
            UNION {IF fd # form
                   THEN {after(mm, x) : x \in callEtape(L, from, etapeArgs(fd, sentenceStart, 4), fuel)}
                   ELSE {mm} : fd \in decontracte(L, form)}
      [] etape = 2 -> assimilations(L, form, sentenceStart, fuel, mm)
      [] etape = 1 ->
            IF DOMAIN mm.res = {}
            THEN tryEnclitics(L, form, sentenceStart, 1, fuel, mm)
            ELSE {mm}
      [] etape = 0 ->
            IF needCapitalized(mm, form)
            THEN {assigned(mm, x) :
                    x \in callEtape(L, from,
                                    etapeArgs(<<ToUpperRune(form[1])>> \o Tail(form), FALSE, 1), fuel)}
            ELSE {mm}
      [] OTHER -> {mm}

\* The test of line 184 without sentenceStart: every capitalized form is
\* retried in lower case.
needLowercaseRetryAnywhere(form, sentenceStart) == Len(form) > 0 /\ IsUpper(form[1])

\* The test of line 184.
needLowercaseRetry(form, sentenceStart) ==
    sentenceStart /\ Len(form) > 0 /\ IsUpper(form[1])

\* lemmatizeMEtape; fuel is the number of calls of it that may still be
\* opened.
lemmatizeMEtape(L, form, sentenceStart, etape, fuel) ==
    LET from == etapeArgs(form, sentenceStart, etape) IN
    IF fuel = 0 THEN {Refused}
    ELSE IF form = <<>> THEN {return(NoCall)}
    ELSE IF etape > 3
    THEN LET mm == rawAtStage4(lemmatizeRaw(L, form, MaxDoubleI)) IN
         IF needLowercaseRetry(form, sentenceStart)
         THEN {return(after(mm, x)) : x \in callEtape(L, from, lowercaseRetry(form), fuel)}
         ELSE {return(mm)}
    ELSE {return(x) : x \in UNION {etapeSwitch(L, form, sentenceStart, etape, fuel, mm) :
                                     mm \in callEtape(L, from, etapeArgs(form, sentenceStart, etape + 1), fuel)}}

\* The outcome x less its record of the calls made and the splits gone
\* through, which the stage-by-stage runs alone keep.
untraced(x) == [x EXCEPT !.calls = {}, !.splits = {}]

lemmatizeM(L, form, sentenceStart) ==
    {untraced(x) : x \in lemmatizeMEtape(L, form, sentenceStart, 0, MaxDepth)}

----------------------------------------------------------------------------
(* Inflection tables (inflectionTable, inflectedForms, unique).            *)

\* unique keeping every string: the seen map never consulted.
uniqueKeepsAll(ss) == ss

RECURSIVE unique(_)
\* The first occurrences of the strings of ss, in order.
unique(ss) ==
    IF ss = <<>> THEN <<>>
    ELSE LET init == unique(Take(ss, Len(ss) - 1))
             last == ss[Len(ss)]
         IN  IF last \in Range(init) THEN init ELSE Append(init, last)

\* inflectedForms for the Lemma at pointer lemma (0 is nil).
inflectedForms(L, lemma, morphoIdx) ==
    IF lemma = 0 \/ L.lemmaHeap[lemma].model = 0 THEN <<>>
    ELSE LET lem       == L.lemmaHeap[lemma]
             m         == L.modelHeap[lem.model]
             irr       == irregAt(lem, morphoIdx)
             irreqGrq  == irr[1]
             exclusive == irr[2]
             regular   == Flatten(MapSeq(DesinencesAt(m, morphoIdx), LAMBDA d :
                             MapSeq(RadicalsAt(lem, d.RadNum), LAMBDA rad : rad.Grq \o d.Grq)))
         IN  IF exclusive
             THEN (IF irreqGrq # <<>> THEN <<irreqGrq>> ELSE <<>>)
             ELSE unique((IF irreqGrq # <<>> THEN <<irreqGrq>> ELSE <<>>) \o regular)

\* inflectionTable: nil is the table of Lemma 0.
inflectionTable(L, lemma) ==
    IF lemma = 0 \/ L.lemmaHeap[lemma].model = 0 THEN [Lemma |-> 0, Cells |-> NoMap]
    ELSE LET m == L.modelHeap[L.lemmaHeap[lemma].model] IN
         [Lemma |-> lemma,
          Cells |-> [mn \in {s \in DOMAIN m.Desinences : inflectedForms(L, lemma, s) # <<>>} |->
                        inflectedForms(L, lemma, mn)]]

----------------------------------------------------------------------------
(* lemmatizeText.  The word tokens are the maximal runs of code points of  *)
(* the class of reWord; a token starts a sentence when it is the first or  *)
(* when one of . ! ? ; : stands in the five bytes before it.               *)

NotInWord ==
    {" ", ".", "!", "?", ";", ":", ",", "-", "*", "=", "|", "<y^>", "<Y^>", "<u.>"}
        \cup DOMAIN digitOf

rePunct == {".", "!", "?", ";", ":"}

\* The length of the UTF-8 encoding of a code point.
Utf8Len(c) ==
    IF c = "<u.>" THEN 3
    ELSE IF c \in DOMAIN atoneReplacer \cup {"<ae>", "<AE>", "<oe>", "<OE>", "<^>", "<->"} THEN 2
    ELSE 1

RECURSIVE ByteLen(_)
ByteLen(s) == IF s = <<>> THEN 0 ELSE Utf8Len(Head(s)) + ByteLen(Tail(s))

RECURSIVE FindAllStringIndex(_, _)
\* reWord.FindAllStringIndex from the code point i on: the pairs
\* <<first, last>> of the positions (from 1) of the tokens.
FindAllStringIndex(text, i) ==
    IF i > Len(text) THEN <<>>
    ELSE IF text[i] \in NotInWord THEN FindAllStringIndex(text, i + 1)
    ELSE LET stops == {j \in i..Len(text) : text[j] \in NotInWord}
             last  == IF stops = {} THEN Len(text)
                      ELSE (CHOOSE j \in stops : \A k \in stops : j <= k) - 1
         IN  <<<<i, last>>>> \o FindAllStringIndex(text, last + 1)

\* debPhr of lines 276-280 for the token of index ti (from 0) at first.
debPhr(text, ti, first) ==
    \/ ti = 0
    \/ /\ first > 1
       /\ \E p \in 1..(first - 1) :
             text[p] \in rePunct /\ ByteLen(SubSeq(text, p, first - 1)) <= 5

RECURSIVE lemmatizeTokens(_, _, _, _)
\* The loop of lines 275-286 from the token ti on: the sequences of
\* LemmatizationResult it may append.  A LemmatizationResult carries,
\* besides its two Go fields, the history field sentenceStart that no
\* operator reads: the debPhr lemmatizeM was called with.
lemmatizeTokens(L, text, positions, ti) ==
    IF ti >= Len(positions) THEN {<<>>}
    ELSE LET first == positions[ti + 1][1]
             token == SubSeq(text, first, positions[ti + 1][2])
         IN  {<<[Token |-> token, Analyses |-> analyses,
                 sentenceStart |-> debPhr(text, ti, first)]>> \o rest :
                 analyses \in lemmatizeM(L, token, debPhr(text, ti, first)),
                 rest \in lemmatizeTokens(L, text, positions, ti + 1)}

lemmatizeText(L, text) == lemmatizeTokens(L, text, FindAllStringIndex(text, 1), 0)

----------------------------------------------------------------------------
(* Specification SpecNorm: NormalizeKey applied to a string, then to its   *)
(* own result.  ret is the sequence of the keys returned so far.           *)

MaxNormLen == 3

NormAlphabet == {"a", "j", "v", "V", "<ae>", "<oe>", "<OE>", "<a->", "<E^>", "<y^>", "<^>", "<->"}

InitNorm ==
    /\ l = EmptyLemmatizer
    /\ src = <<>>
    /\ op = "start"
    /\ arg \in Str(MaxNormLen, NormAlphabet)
    /\ ret = <<>>

NormalizeKeyCall ==
    /\ op = "start"
    /\ op' = "NormalizeKey"
    /\ ret' = <<NormalizeKey(arg)>>
    /\ UNCHANGED <<l, src, arg>>

NormalizeKeyAgain ==
    /\ op = "NormalizeKey"
    /\ op' = "NormalizeKeyAgain"
    /\ ret' = Append(ret, NormalizeKey(ret[1]))
    /\ UNCHANGED <<l, src, arg>>

NextNorm == NormalizeKeyCall \/ NormalizeKeyAgain

SpecNorm == InitNorm /\ [][NextNorm]_vars

----------------------------------------------------------------------------
(* Specification SpecCommunes: Communes applied to a lowercase string of   *)
(* up to MaxCommunesLen code points.                                       *)

MaxCommunesLen == 3

CommunesAlphabet ==
    {"t", "q", "a", "e", "i", "o", "u", "y", "<a->", "<a^>", "<o->", "<e->", "<^>"}

InitCommunes ==
    /\ l = EmptyLemmatizer
    /\ src = <<>>
    /\ op = "start"
    /\ arg \in Str(MaxCommunesLen, CommunesAlphabet)
    /\ ret = <<>>

CommunesCall ==
    /\ op = "start"
    /\ op' = "Communes"
    /\ ret' = <<Communes(arg)>>
    /\ UNCHANGED <<l, src, arg>>

NextCommunes == CommunesCall

SpecCommunes == InitCommunes /\ [][NextCommunes]_vars

----------------------------------------------------------------------------
(* Specification SpecMorphos: loadMorphos on a morphos file, then Morpho.  *)

MaxMorphoLines == 3

MorphoLinePool ==
    { <<"1", ":", "x">>, <<"2", ":", "y">>, <<"3", ":", "z", ":", "w">>,
      <<"!", "c", ":", "x">>, <<"n", "o">>, MorphosTerminator \o <<"4", ":", "v">> }

InitMorphos ==
    /\ l = EmptyLemmatizer
    /\ src \in {[morphos |-> f] : f \in Str(MaxMorphoLines, MorphoLinePool)}
    /\ op = "New"
    /\ arg = <<>>
    /\ ret = <<>>

LoadMorphos ==
    /\ op = "New"
    /\ l' = loadMorphos(l, src.morphos)
    /\ op' = "loadMorphos"
    /\ UNCHANGED <<src, arg, ret>>

MorphoCall ==
    /\ op \in {"loadMorphos", "Morpho"}
    /\ \E m \in (0 - 1)..(MaxMorphoLines + 1) :
          /\ arg' = m
          /\ ret' = Morpho(l, m)
    /\ op' = "Morpho"
    /\ UNCHANGED <<l, src>>

NextMorphos == LoadMorphos \/ MorphoCall

SpecMorphos == InitMorphos /\ [][NextMorphos]_vars

----------------------------------------------------------------------------
(* Specification SpecListI: ListI applied to a range string written from a *)
(* list of up to MaxItems items, each a number or a pair of bounds, the    *)
(* items bare or surrounded by spaces.                                     *)

MaxItems == 2

ItemNumbers == {0, 1, 3, 10, 12}

Items == {<<n>> : n \in ItemNumbers} \cup (ItemNumbers \X ItemNumbers)

\* strconv.Itoa for a number below 100.
Itoa(n) ==
    LET digit(k) == CHOOSE c \in DOMAIN digitOf : digitOf[c] = k
    IN  IF n < 10 THEN <<digit(n)>> ELSE <<digit(n \div 10), digit(n % 10)>>

\* An item as it is written: "n" or "a-b", between two spaces when padded.
ItemText(item, padded) ==
    LET text == IF Len(item) = 1 THEN Itoa(item[1]) ELSE Itoa(item[1]) \o <<"-">> \o Itoa(item[2])
    IN  IF padded THEN <<" ">> \o text \o <<" ">> ELSE text

RECURSIVE RangeText(_, _)
\* The items joined by commas.
RangeText(items, padded) ==
    IF Len(items) = 1 THEN ItemText(items[1], padded)
    ELSE ItemText(items[1], padded) \o <<",">> \o RangeText(Tail(items), padded)

InitListI ==
    /\ l = EmptyLemmatizer
    /\ \E items \in Str(MaxItems, Items) \ {<<>>}, padded \in BOOLEAN :
          /\ src = [items |-> items]
          /\ arg = RangeText(items, padded)
    /\ op = "New"
    /\ ret = <<>>

ListICall ==
    /\ op = "New"
    /\ ret' = ListI(arg)
    /\ op' = "ListI"
    /\ UNCHANGED <<l, src, arg>>

NextListI == ListICall

SpecListI == InitListI /\ [][NextListI]_vars

----------------------------------------------------------------------------
(* Specification SpecModels: loadModels on a modeles file made of a root   *)
(* block and a child block of up to MaxDirectives directive lines, one     *)
(* flushBlock per step.  arg holds the lines of the file not yet consumed. *)

MaxDirectives == 3

RootBlocks ==
    { << <<"modele", "A">>, <<"R", <<"1">>, <<"1", ",", "0">> >>,
         <<"des", <<"1", "-", "3">>, <<"1">>, <<"a", ";", "i", ",", "e", ";", "o">> >> >>,
      << <<"modele", "A">>, <<"abs", <<"3">> >>,
         <<"des", <<"1", "-", "2">>, <<"1">>, <<"a", ";", "-">> >> >> }

DirectivePool ==
    { <<"pere", "A">>,
      <<"des", <<"2">>, <<"1">>, <<"u">> >>,
      <<"des+", <<"1", ",", "3">>, <<"2">>, <<"y">> >>,
      <<"abs", <<"2">> >>,
      <<"abs+", <<"1">> >>,
      <<"sufd", <<"s">> >>,
      <<"suf", <<"1", "-", "2">>, <<"t">> >> }

ChildBlocks ==
    { << <<"modele", name>> >> \o ds :
        name \in {"A", "B"}, ds \in Str(MaxDirectives, DirectivePool) }

ModelFiles == {root \o child : root \in RootBlocks, child \in ChildBlocks}

\* The first block of lines: up to the next "modele" line.
RECURSIVE BlockEnd(_, _)
BlockEnd(lines, i) ==
    IF i > Len(lines) \/ lines[i][1] = "modele" THEN i - 1 ELSE BlockEnd(lines, i + 1)

InitModels ==
    /\ l = EmptyLemmatizer
    /\ src \in {[models |-> f] : f \in ModelFiles}
    /\ op = "New"
    /\ arg = src.models
    /\ ret = <<>>

FlushBlock ==
    /\ op \in {"New", "flushBlock"}
    /\ arg # <<>>
    /\ LET n == BlockEnd(arg, 2) IN
          /\ l' = flushBlock(l, Take(arg, n))
          /\ arg' = Drop(arg, n)
    /\ op' = "flushBlock"
    /\ UNCHANGED <<src, ret>>

LoadModelsDone ==
    /\ op = "flushBlock"
    /\ arg = <<>>
    /\ op' = "loadModels"
    /\ UNCHANGED <<l, src, arg, ret>>

NextModels == FlushBlock \/ LoadModelsDone

SpecModels == InitModels /\ [][NextModels]_vars

\* The block-by-block run ends in the state loadModels computes.
ModelsStepwiseIsLoadModels ==
    op = "loadModels" => l = loadModels(EmptyLemmatizer, src.models)

----------------------------------------------------------------------------
(* Claims about the normalization toolkit (SpecNorm).                      *)

MarkedVowels ==
    { "<a->", "<a^>", "<e->", "<e^>", "<i->", "<i^>", "<o->", "<o^>",
      "<u->", "<u^>", "<y->", "<y^>",
      "<A->", "<A^>", "<E->", "<E^>", "<I->", "<I^>", "<O->", "<O^>",
      "<U->", "<U^>", "<Y->", "<Y^>", "<^>" }

\* C9: NormalizeKey is idempotent (the key of a key is that key); a key
\* holds no macron or breve vowel, no combining breve and none of j, v,
\* ae-ligature, oe-ligature; and j, v, the ligatures and a marked vowel
\* become i, u, ae, oe and the bare vowel.
C9_NormalizeKeyIdempotent ==
    /\ Len(ret) = 2 => ret[2] = ret[1]
    /\ Len(ret) >= 1 =>
          /\ \A i \in 1..Len(ret[1]) :
                ret[1][i] \notin MarkedVowels \cup {"j", "v", "<ae>", "<oe>"}
          /\ arg = <<"j">> => ret[1] = <<"i">>
          /\ arg = <<"v">> => ret[1] = <<"u">>
          /\ arg = <<"<ae>">> => ret[1] = <<"a", "e">>
          /\ arg = <<"<oe>">> => ret[1] = <<"o", "e">>
          /\ arg = <<"<a->">> => ret[1] = <<"a">>
          /\ arg = <<"<E^>">> => ret[1] = <<"E">>
          /\ arg = <<"a", "<^>">> => ret[1] = <<"a">>

C9_Witness ==
    /\ op = "NormalizeKeyAgain"
    /\ arg = <<"j", "<a->", "<ae>">>
    /\ ret = << <<"i", "a", "a", "e">>, <<"i", "a", "a", "e">> >>

----------------------------------------------------------------------------
(* Claims about the morphos table (SpecMorphos).                           *)

\* The lines of the morphos file before the first line starting "! --- ".
BeforeTerminator(file, i) ==
    \A j \in 1..i : ~HasPrefix(file[j], MorphosTerminator)

\* A line N:DESCRIPTION: not a comment, with a numeral before its first colon.
IsNumberedLine(line) ==
    /\ ~HasPrefix(line, <<"!">>)
    /\ Index(line, ":") > 0
    /\ IsNumeral(Take(line, Index(line, ":")))

\* C10: after loadMorphos, Morpho(N) is the DESCRIPTION of the line whose
\* number field is N, for every line N:DESCRIPTION before the terminator,
\* whatever the order or gaps of the numbers; and the lines from the
\* terminator on contribute nothing.
C10_MorphoIndexedByNumber ==
    op = "Morpho" =>
        /\ \A i \in 1..Len(src.morphos) :
              LET line == src.morphos[i] IN
              (/\ BeforeTerminator(src.morphos, i)
               /\ IsNumberedLine(line)
               /\ Atoi(Take(line, Index(line, ":"))) = arg)
              => ret = Drop(line, Index(line, ":") + 1)
        /\ Len(l.morphos) - 1 <=
              Cardinality({i \in 1..Len(src.morphos) : BeforeTerminator(src.morphos, i)})

----------------------------------------------------------------------------
(* Specification Spec: a Lemmatizer built by New from a data directory,    *)
(* then queried.  l is the Lemmatizer, src the data directory, op the      *)
(* last operation, arg its arguments, ret what it returned.                *)
(* LemmatizeWord and LemmatizeText are explored as the first query made    *)
(* or after an InflectionTable; LemmatizeWordAgain repeats the last        *)
(* LemmatizeWord; LemmatizeCell lemmatizes a form of the table returned.   *)

MaxFormLen == 4

FormAlphabet == {"a", "i", "s", "t", "T"}

Forms == Str(MaxFormLen, FormAlphabet)

MorphosFile == << <<"1", ":", "n">>, <<"2", ":", "g">>, <<"3", ":", "d">> >>

\* Model A: radical 1 is the canonical form less its last code point;
\* slots 1-3 are described in MorphosFile, slot 4 is not.
ModelA ==
    << <<"modele", "A">>,
       <<"R", <<"1">>, <<"1", ",", "0">>>>,
       <<"des", <<"1", "-", "3">>, <<"1">>, <<"a", ";", "i", ";", "s">>>> >>

ModelsFiles == {ModelA, Append(ModelA, <<"des", <<"4">>, <<"1">>, <<"t">>>>)}

\* The radicals are "ti", "T" and "tii": "ti" and "ti" + "i" are both keys
\* of the radicals index.
LemmesFile ==
    << <<<<"t", "i", "a">>, "A", <<>>, <<>>, <<>>>>,
       <<<<"T", "a">>, "A", <<>>, <<>>, <<>>>>,
       <<<<"t", "i", "i", "a">>, "A", <<>>, <<>>, <<>>>> >>

IrregSit == <<<<"s", "i", "t">>, <<"t", "i", "a">>, <<"1">>>>

IrregSatExcl == <<<<"s", "a", "t", "*">>, <<"t", "i", "a">>, <<"1">>>>

\* An irregular whose slots are 0 and 4: the table of MorphosFile
\* describes the slots 1-3.
IrregSatUndescribed == <<<<"s", "a", "t">>, <<"t", "i", "a">>, <<"0", ",", "4">>>>

IrregsFiles == {<<>>, <<IrregSatExcl>>, <<IrregSit, IrregSatExcl>>, <<IrregSatUndescribed>>}

\* Two keys are prefixes of "ita", two contraction keys suffixes of "tas".
AssimsFile == << <<<<"i", "t">>, <<"t", "i">>>>, <<<<"i">>, <<"a">>>> >>

ContractionsFile == << <<<<"a", "s">>, <<"i", "a">>>>, <<<<"s">>, <<"i", "s">>>> >>

DataDirs ==
    {[morphos |-> MorphosFile, models |-> mo, lemmes |-> LemmesFile, irregs |-> ir,
      assims |-> AssimsFile, contractions |-> ContractionsFile] :
        mo \in ModelsFiles, ir \in IrregsFiles}

Texts ==
    { <<"t", "i", "a">>,
      <<"T", "i", "a", " ", "T", "i", "a">>,
      <<"t", "i", ".", " ", "T", "i", "a">>,
      <<"t", "i", ".", " ", " ", " ", " ", " ", "T", "i", "a">>,
      <<"t", "a", "s", ";", "i", "t", "a">>,
      <<"t", "i", ".", "<a->", "<a->", " ", "T", "i", "a">> }

\* Keys asked of Lemma: in the lexicon as written, in it once normalized,
\* and not in it.
Keys ==
    { <<>>, <<"t", "i", "a">>, <<"T", "a">>, <<"t", "a">>, <<"t", "<i^>", "a">>,
      <<"t", "j", "<a->">>, <<"t", "i", "i", "a">>, <<"t", "i", "s">> }

\* Slots asked of Morpho: below 1, described, and above the last described.
Slots == -1..5

Init ==
    /\ src \in DataDirs
    /\ l = New(src)
    /\ op = "New"
    /\ arg = <<>>
    /\ ret = <<>>

\* LemmatizeWord with lookups that insert the missing key, as operator[]
\* of the C++ maps this code was ported from does: the probe of l.irregs
\* (line 69) leaves an empty entry behind.
LemmatizeWordInsertingLookup ==
    /\ op \in {"New", "InflectionTable"}
    /\ \E form \in Forms, sentenceStart \in BOOLEAN :
          /\ arg' = [form |-> form, sentenceStart |-> sentenceStart]
          /\ \E mm \in lemmatizeM(l, form, sentenceStart) : ret' = <<mm>>
          /\ l' = [l EXCEPT !.irregs = IF Deramise(form) \in DOMAIN @ THEN @
                                       ELSE (Deramise(form) :> <<>>) @@ @]
    /\ op' = "LemmatizeWord"
    /\ UNCHANGED src

LemmatizeWord ==
    /\ op \in {"New", "InflectionTable"}
    /\ \E form \in Forms, sentenceStart \in BOOLEAN :
          /\ arg' = [form |-> form, sentenceStart |-> sentenceStart]
          /\ \E mm \in lemmatizeM(l, form, sentenceStart) : ret' = <<mm>>
    /\ op' = "LemmatizeWord"
    /\ UNCHANGED <<l, src>>

\* The same call once more on the same Lemmatizer.
LemmatizeWordAgain ==
    /\ op = "LemmatizeWord"
    /\ \E mm \in lemmatizeM(l, arg.form, arg.sentenceStart) : ret' = Append(ret, mm)
    /\ op' = "LemmatizeWordAgain"
    /\ UNCHANGED <<l, src, arg>>

LemmatizeText ==
    /\ op \in {"New", "InflectionTable"}
    /\ \E text \in Texts :
          /\ arg' = [text |-> text]
          /\ \E results \in lemmatizeText(l, text) : ret' = <<results>>
    /\ op' = "LemmatizeText"
    /\ UNCHANGED <<l, src>>

InflectionTable ==
    /\ op # "InflectionTable"
    /\ \E lemma \in 0..Len(l.lemmaHeap) :
          /\ arg' = [lemma |-> lemma]
          /\ ret' = <<inflectionTable(l, lemma)>>
    /\ op' = "InflectionTable"
    /\ UNCHANGED <<l, src>>

\* LemmatizeWord(Atone(Deramise(f)), false) for a form f of a cell of the
\* table just returned.
LemmatizeCell ==
    /\ op = "InflectionTable"
    /\ \E s \in DOMAIN ret[1].Cells : \E k \in 1..Len(ret[1].Cells[s]) :
          LET form == Atone(Deramise(ret[1].Cells[s][k])) IN
          /\ arg' = [form |-> form, sentenceStart |-> FALSE, lemma |-> ret[1].Lemma,
                     slot |-> s, f |-> ret[1].Cells[s][k]]
          /\ \E mm \in lemmatizeM(l, form, FALSE) : ret' = <<mm>>
    /\ op' = "LemmatizeCell"
    /\ UNCHANGED <<l, src>>

\* Morpho(m) on the Lemmatizer as built.
MorphoSlot ==
    /\ op = "New"
    /\ \E m \in Slots :
          /\ arg' = [m |-> m]
          /\ ret' = <<Morpho(l, m)>>
    /\ op' = "Morpho"
    /\ UNCHANGED <<l, src>>

\* Lemma(key) on the Lemmatizer as built.
LemmaKey ==
    /\ op = "New"
    /\ \E key \in Keys :
          /\ arg' = [key |-> key]
          /\ ret' = <<Lemma(l, key)>>
    /\ op' = "Lemma"
    /\ UNCHANGED <<l, src>>

Next ==
    \/ LemmatizeWord
    \/ LemmatizeWordAgain
    \/ LemmatizeText
    \/ InflectionTable
    \/ LemmatizeCell
    \/ MorphoSlot
    \/ LemmaKey

Spec == Init /\ [][Next]_vars

----------------------------------------------------------------------------
(* Specification SpecCascade: lemmatizeMEtape called at each stage, on a   *)
(* Lemmatizer whose tables make every branch of the cascade find words.    *)
(* A form is a stem of up to MaxStemLen code points followed by nothing or *)
(* by an enclitic.                                                         *)

MaxStemLen == 3

StemAlphabet == {"t", "a", "q", "s", "T"}

CascadeForms ==
    {stem \o suf : stem \in Str(MaxStemLen, StemAlphabet), suf \in {<<>>} \cup Range(enclitics)}

\* Model Q: the words of the lemma ta are ta (slot 1), tq and taq (slot 2),
\* tas (slot 3); Sa is a proper noun.
ModelQ ==
    << <<"modele", "Q">>,
       <<"R", <<"1">>, <<"1", ",", "0">>>>,
       <<"des", <<"1", "-", "3">>, <<"1">>, <<"a", ";", "q", ",", "a", "q", ";", "a", "s">>>> >>

CascadeLemmes ==
    << <<<<"t", "a">>, "Q", <<>>, <<>>, <<>>>>,
       <<<<"S", "a">>, "Q", <<>>, <<>>, <<>>>> >>

\* tane is a word by itself, and ta followed by the enclitic ne.
CascadeIrregs == << <<<<"t", "a", "n", "e">>, <<"t", "a">>, <<"3">>>> >>

\* No form starts with two keys, nor with two values; s starts with the
\* key s and with the value s.
CascadeAssims ==
    << <<<<"s">>, <<"t", "a">>>>,
       <<<<"t", "a", "s">>, <<"s">>>>,
       <<<<"t", "q">>, <<"q", "a">>>> >>

CascadeContractions == << <<<<"t", "s">>, <<"t", "a", "s">>>> >>

CascadeDir ==
    [morphos |-> MorphosFile, models |-> ModelQ, lemmes |-> CascadeLemmes,
     irregs |-> CascadeIrregs, assims |-> CascadeAssims, contractions |-> CascadeContractions]

InitCascade ==
    /\ src = CascadeDir
    /\ l = New(src)
    /\ op = "New"
    /\ arg = <<>>
    /\ ret = <<>>

\* l.lemmatizeMEtape(form, sentenceStart, etape); etape 0 is LemmatizeWord.
CascadeStage ==
    /\ op = "New"
    /\ \E form \in CascadeForms, sentenceStart \in BOOLEAN, etape \in 0..4 :
          /\ arg' = etapeArgs(form, sentenceStart, etape)
          /\ \E mm \in lemmatizeMEtape(l, form, sentenceStart, etape, MaxDepth) : ret' = <<mm>>
    /\ op' = "lemmatizeMEtape"
    /\ UNCHANGED <<l, src>>

NextCascade == CascadeStage

SpecCascade == InitCascade /\ [][NextCascade]_vars

----------------------------------------------------------------------------
(* Specification SpecRaw: lemmatizeRaw called on forms of up to MaxRawLen  *)
(* code points, on a Lemmatizer whose radicals differ by an i (tui, tuii), *)
(* by u and v (u, v) and by the quantity of the a of ae.                   *)

MaxRawLen == 4

RawAlphabet == {"t", "u", "v", "i", "a", "<ae>"}

RawForms == Str(MaxRawLen, RawAlphabet)

RawLemmes ==
    << <<<<"t", "u", "i", "a">>, "A", <<>>, <<>>, <<>>>>,
       <<<<"t", "u", "i", "i", "a">>, "A", <<>>, <<>>, <<>>>>,
       <<<<"v", "a">>, "A", <<>>, <<>>, <<>>>>,
       <<<<"u", "a", "2">>, "A", <<>>, <<>>, <<>>>>,
       <<<<"<a->", "e", "a">>, "A", <<>>, <<>>, <<>>>>,
       <<<<"a", "e", "a", "2">>, "A", <<>>, <<>>, <<>>>> >>

RawDir ==
    [morphos |-> MorphosFile, models |-> ModelA, lemmes |-> RawLemmes, irregs |-> <<>>,
     assims |-> <<>>, contractions |-> <<>>]

InitRaw ==
    /\ src = RawDir
    /\ l = New(src)
    /\ op = "New"
    /\ arg = <<>>
    /\ ret = <<>>

\* l.lemmatizeRaw(form).
LemmatizeRaw ==
    /\ op = "New"
    /\ \E form \in RawForms :
          /\ arg' = [form |-> form]
          /\ ret' = <<lemmatizeRaw(l, form, MaxDoubleI)>>
    /\ op' = "lemmatizeRaw"
    /\ UNCHANGED <<l, src>>

NextRaw == LemmatizeRaw

SpecRaw == InitRaw /\ [][NextRaw]_vars

----------------------------------------------------------------------------
(* Specification SpecTable: InflectionTable for a lemma with two radicals  *)
(* of number 1 and one of number 2, whose model is made of up to           *)
(* MaxTableLines des: lines, with no irregular, a non-exclusive one or an  *)
(* exclusive one.                                                          *)

MaxTableLines == 3

TableLinePool ==
    { <<"des", <<"1">>, <<"1">>, <<"a">>>>,
      <<"des", <<"1">>, <<"2">>, <<"a">>>>,
      <<"des", <<"1">>, <<"1">>, <<"i", ",", "a">>>>,
      <<"des", <<"1", "-", "2">>, <<"2">>, <<"i", ";", "a">>>>,
      <<"des", <<"2">>, <<"1">>, <<"a">>>> }

TableModels == {<< <<"modele", "T">> >> \o ds : ds \in Str(MaxTableLines, TableLinePool)}

\* The radicals are given: t and s of number 1, q of number 2.
TableLemmes == << <<<<"t", "a">>, "T", <<"t", ",", "s">>, <<"q">>, <<>>>> >>

\* qa is also the radical q followed by the ending a.
TableIrregs ==
    { <<>>,
      << <<<<"q", "a">>, <<"t", "a">>, <<"1">>>> >>,
      << <<<<"s", "a", "t", "*">>, <<"t", "a">>, <<"2">>>> >> }

TableDirs ==
    {[morphos |-> MorphosFile, models |-> mo, lemmes |-> TableLemmes, irregs |-> ir,
      assims |-> <<>>, contractions |-> <<>>] : mo \in TableModels, ir \in TableIrregs}

InitTable ==
    /\ src \in TableDirs
    /\ l = New(src)
    /\ op = "New"
    /\ arg = <<>>
    /\ ret = <<>>

NextTable == InflectionTable

SpecTable == InitTable /\ [][NextTable]_vars

----------------------------------------------------------------------------
(* Specification SpecVars: substituteVars on a directive line of up to     *)
(* MaxVarLineLen code points, one round of its loop per step, with a       *)
(* table of the variables $a and $b.  arg is the line as the loop holds    *)
(* it; a line that outgrows MaxSubstLen code points is given up ("cut").   *)
(* src is the line as given, with the parity of the rounds made, so that   *)
(* a round that leaves the line as it was is still a step.                 *)

MaxVarLineLen == 3

MaxSubstLen == 8

VarLineAlphabet == {"$", "a", "b", ";", "x"}

VarNames == {<<"$", "a">>, <<"$", "b">>}

\* A value without a reference, one that is a reference, one that holds a
\* reference after other text, an empty one.
VarValues ==
    {<<"x">>, <<"$", "a">>, <<"$", "b">>, <<"x", ";", "$", "b">>, <<>>}

VarTables == UNION {[names -> VarValues] : names \in SUBSET VarNames}

InitVars ==
    /\ \E table \in VarTables : l = [EmptyLemmatizer EXCEPT !.variables = table]
    /\ op = "substituteVars"
    /\ arg \in Str(MaxVarLineLen, VarLineAlphabet)
    /\ src = [line |-> arg, rounds |-> 0]
    /\ ret = <<>>

\* One round of the loop of lines 345-359.
SubstituteRound ==
    /\ op = "substituteVars"
    /\ loops(l, arg)
    /\ Len(substituteOnce(l, arg)) <= MaxSubstLen
    /\ arg' = substituteOnce(l, arg)
    /\ src' = [src EXCEPT !.rounds = 1 - @]
    /\ UNCHANGED <<l, op, ret>>

\* The loop ends (no $ left, or the break of line 356) and the line is
\* returned.
SubstituteReturn ==
    /\ op = "substituteVars"
    /\ ~loops(l, arg)
    /\ op' = "return"
    /\ ret' = <<arg>>
    /\ UNCHANGED <<l, src, arg>>

\* The line outgrew MaxSubstLen code points: the run is given up.
SubstituteCut ==
    /\ op = "substituteVars"
    /\ loops(l, arg)
    /\ Len(substituteOnce(l, arg)) > MaxSubstLen
    /\ op' = "cut"
    /\ UNCHANGED <<l, src, arg, ret>>

NextVars == SubstituteRound \/ SubstituteReturn \/ SubstituteCut

\* The loop is a sequential program: it takes its next step.
SpecVars == InitVars /\ [][NextVars]_vars /\ WF_vars(NextVars)

----------------------------------------------------------------------------
(* Specification SpecLexicon: loadLexicon on a lemmes file of up to        *)
(* MaxLemmaLines records, one record per step, then LemmatizeWord.  The    *)
(* records share keys, give radicals or leave them to the rules of the     *)
(* model, list alternative forms.  arg holds the records not yet read.     *)

MaxLemmaLines == 2

MaxLexFormLen == 3

LexAlphabet == {"t", "a", "s", "i", "o"}

LexForms == Str(MaxLexFormLen, LexAlphabet)

\* Model R: radical 1 is the form less one code point, radical 2 the form,
\* radical 3 the form less two code points followed by s.
ModelR ==
    << <<"modele", "R">>,
       <<"R", <<"1">>, <<"1", ",", "0">>>>,
       <<"R", <<"2">>, <<"K">>>>,
       <<"R", <<"3">>, <<"2", ",", "s">>>>,
       <<"des", <<"1">>, <<"1">>, <<"a">>>>,
       <<"des", <<"2">>, <<"2">>, <<"i">>>>,
       <<"des", <<"3">>, <<"3">>, <<"s">>>> >>

\* ta; ta again with the alternative to; ta with a trailing breve and the
\* radical s given for number 1; to with the radicals o and s given for
\* number 2; so with a homonym digit; ta of a model that does not exist.
LemmaLinePool ==
    { <<<<"t", "a">>, "R", <<>>, <<>>, <<>>>>,
      <<<<"t", "a", "=", "t", "a", ",", "t", "o">>, "R", <<>>, <<>>, <<>>>>,
      <<<<"t", "a", "<^>">>, "R", <<"s">>, <<>>, <<>>>>,
      <<<<"t", "o">>, "R", <<>>, <<"o", ",", "s">>, <<>>>>,
      <<<<"s", "o", "2">>, "R", <<>>, <<>>, <<>>>>,
      <<<<"t", "a">>, "X", <<"t">>, <<>>, <<>>>> }

LexiconDirs ==
    {[morphos |-> MorphosFile, models |-> ModelR, lemmes |-> lines, irregs |-> <<>>,
      assims |-> <<>>, contractions |-> <<>>] : lines \in Str(MaxLemmaLines, LemmaLinePool)}

\* New up to the call of loadLexicon (lines 56-68).
beforeLexicon(dataDir) ==
    CHOOSE l4 \in
        {loadModels(l3, dataDir.models) : l3 \in
        {loadMorphos(l2, dataDir.morphos) : l2 \in
        {loadContractions(l1, dataDir.contractions) : l1 \in
        {loadAssims(EmptyLemmatizer, dataDir.assims)}}}} : TRUE

InitLexicon ==
    /\ src \in LexiconDirs
    /\ l = beforeLexicon(src)
    /\ op = "New"
    /\ arg = src.lemmes
    /\ ret = <<>>

\* One iteration of the loop of loadLexicon.
LoadLexiconLine ==
    /\ op \in {"New", "loadLexiconLine"}
    /\ arg # <<>>
    /\ l' = loadLexiconLine(l, Head(arg))
    /\ arg' = Tail(arg)
    /\ op' = "loadLexiconLine"
    /\ UNCHANGED <<src, ret>>

\* LemmatizeWord once the whole file is read.
LexiconWord ==
    /\ op \in {"New", "loadLexiconLine"}
    /\ arg = <<>>
    /\ \E form \in LexForms, sentenceStart \in BOOLEAN :
          /\ arg' = [form |-> form, sentenceStart |-> sentenceStart]
          /\ \E mm \in lemmatizeM(l, form, sentenceStart) : ret' = <<mm>>
    /\ op' = "LemmatizeWord"
    /\ UNCHANGED <<l, src>>

NextLexicon == LoadLexiconLine \/ LexiconWord

SpecLexicon == InitLexicon /\ [][NextLexicon]_vars

\* The record-by-record run ends in the Lemmatizer New builds.
LexiconStepwiseIsNew ==
    (op \in {"New", "loadLexiconLine"} /\ arg = <<>>) => l = New(src)

----------------------------------------------------------------------------
(* Claims about the model compiler (SpecModels).                           *)

\* The blocks of a modeles file, in the order loadModels flushes them: the
\* block of the Model at heap pointer k is BlocksOf(file)[k].
RECURSIVE BlocksOf(_)
BlocksOf(lines) ==
    IF lines = <<>> THEN <<>>
    ELSE LET n == BlockEnd(lines, 2)
         IN  <<Take(lines, n)>> \o BlocksOf(Drop(lines, n))

Compiled == op = "loadModels"

ModelPtrs == 1..Len(l.modelHeap)

\* m holds at slot s an ending equal to dp but for its owner.
HasCloneOf(m, s, dp) ==
    \E i \in 1..Len(DesinencesAt(m, s)) :
        LET d == m.Desinences[s][i] IN
        /\ d.Grq = dp.Grq /\ d.Gr = dp.Gr
        /\ d.MorphoNum = dp.MorphoNum /\ d.RadNum = dp.RadNum

\* C5 as stated: for every model with a parent and every slot not in its
\* absent set, the model has at that slot every ending its parent has
\* there, whatever directives its block uses.
C5_InheritanceClosure ==
    Compiled =>
        \A k \in ModelPtrs :
            LET m == l.modelHeap[k] IN
            m.parent # 0 =>
                \A s \in DOMAIN Parent(l, m).Desinences :
                    ~isAbsent(m, s) =>
                        \A dp \in Range(Parent(l, m).Desinences[s]) : HasCloneOf(m, s, dp)

\* The slots a block declares endings for itself (des:, des+: lines with
\* their four fields), the slots its abs:, abs+: lines list, whether it has
\* a sufd: line.
DeclaredSlots(block) ==
    UNION {Range(ListI(block[i][2])) :
             i \in {j \in 1..Len(block) : block[j][1] \in {"des", "des+"} /\ Len(block[j]) >= 4}}

AbsListed(block) ==
    UNION {Range(ListI(block[i][2])) :
             i \in {j \in 1..Len(block) : block[j][1] \in {"abs", "abs+"} /\ Len(block[j]) >= 2}}

HasSufd(block) == \E i \in 1..Len(block) : block[i][1] = "sufd"

\* C5 amended: for every model with a parent and every slot for which its
\* own block declares no ending (no des:, des+: line lists it, no sufd:
\* line) and which no abs:, abs+: line of the block lists, the model has at
\* that slot a clone of every ending its parent has there, whatever suf:
\* directives the block uses.
C5_InheritanceOfUndeclaredSlots ==
    Compiled =>
        \A k \in ModelPtrs :
            LET m     == l.modelHeap[k]
                block == BlocksOf(src.models)[k] IN
            (m.parent # 0 /\ ~HasSufd(block)) =>
                \A s \in DOMAIN Parent(l, m).Desinences \ (DeclaredSlots(block) \cup AbsListed(block)) :
                    \A dp \in Range(Parent(l, m).Desinences[s]) : HasCloneOf(m, s, dp)

\* A child that overrides slot 2, buffers a suf: and inherits slots 1 and 3.
C5_Witness ==
    /\ Compiled
    /\ \E k \in ModelPtrs :
          LET m     == l.modelHeap[k]
              block == BlocksOf(src.models)[k] IN
          /\ m.parent # 0
          /\ DeclaredSlots(block) = {2}
          /\ \E i \in 1..Len(block) : block[i][1] = "suf"
          /\ Len(DesinencesAt(Parent(l, m), 2)) = 2
          /\ Len(DesinencesAt(m, 1)) = 2
          /\ Len(DesinencesAt(m, 3)) = 1
          /\ \A dp \in Range(Parent(l, m).Desinences[3]) : HasCloneOf(m, 3, dp)

\* C6: after compilation of any sequence of blocks, every ending in the
\* slot map of a model has its Model pointer equal to that model, never to
\* its parent: endings made by des:, des+:, sufd:, suf: and by inheritance.
C6_EndingsOwnedByTheirModel ==
    \A k \in ModelPtrs :
        \A s \in DOMAIN l.modelHeap[k].Desinences :
            \A d \in Range(l.modelHeap[k].Desinences[s]) : d.Model = k

\* A child with des+: clones, a suf: ending and inherited clones.
C6_Witness ==
    /\ Compiled
    /\ \E k \in ModelPtrs :
          LET m     == l.modelHeap[k]
              block == BlocksOf(src.models)[k] IN
          /\ m.parent # 0 /\ m.parent # k
          /\ {block[i][1] : i \in 1..Len(block)} = {"modele", "pere", "des+", "suf"}
          /\ block[2][1] = "pere"
          /\ Len(DesinencesAt(m, 1)) >= 3
          /\ Len(DesinencesAt(m, 2)) >= 2
          /\ \A s \in DOMAIN m.Desinences : \A d \in Range(m.Desinences[s]) : d.Model = k

----------------------------------------------------------------------------
(* Claims about the queries (Spec).                                        *)

\* The results of lemmatizeM held in ret.
Answers ==
    CASE op \in {"LemmatizeWord", "LemmatizeCell"} -> {ret[1]}
      [] op = "LemmatizeWordAgain" -> {ret[1], ret[2]}
      [] op = "LemmatizeText" -> {ret[1][i].Analyses : i \in 1..Len(ret[1])}
      [] op \in {"lemmatizeMEtape", "lemmatizeRaw"} -> {ret[1]}
      [] OTHER -> {}

\* The pairs <<lemma, Analysis>> returned.
Returned ==
    UNION {{<<lemma, x.res[lemma][i]>> : i \in 1..Len(x.res[lemma])} :
             <<x, lemma>> \in {<<y, k>> \in Answers \X (1..Len(l.lemmaHeap)) : k \in DOMAIN y.res}}

\* C1: for every form and sentence_start and every finite Analyzer,
\* LemmatizeWord returns: lemmatizeMEtape never has more than MaxDepth
\* calls open at once nor the ii recursion of lemmatizeRaw more than
\* MaxDoubleI, so no call is ever refused for lack of depth.
C1_RecursionIsBounded ==
    \A x \in Answers : ~x.cut /\ x.depth <= MaxDepth /\ x.ii <= MaxDoubleI

\* An enclitic was stripped at stage 1 and the recursion on the shorter
\* form returned analyses, the raw matcher having made its ii recursion.
C1_Witness ==
    /\ op = "LemmatizeWord"
    /\ HasSuffix(arg.form, <<"s", "t">>)
    /\ DOMAIN ret[1].res # {}
    /\ ret[1].depth >= 6
    /\ ret[1].ii >= 2
    /\ ~ret[1].cut

\* C2: round trip: for every lemma, slot s and form f of
\* InflectionTable(lemma).Cells[s], LemmatizeWord(Atone(Deramise(f)), false)
\* contains under that lemma an Analysis whose MorphoIndex is s.
C2_RoundTrip ==
    op = "LemmatizeCell" =>
        /\ arg.lemma \in DOMAIN ret[1].res
        /\ \E i \in 1..Len(ret[1].res[arg.lemma]) :
              ret[1].res[arg.lemma][i].MorphoIndex = arg.slot

\* The lemma has an exclusive irregular whose slot list contains s.
HasExclusiveIrregAt(lemma, s) ==
    \E i \in 1..Len(lemma.irregs) :
        lemma.irregs[i].Exclusive /\ s \in Range(lemma.irregs[i].Morphos)

\* C3: if a lemma has an exclusive irregular whose slot list contains s,
\* no Analysis returned for that lemma with MorphoIndex s is built from a
\* radical and an ending, whatever the form, the cascade stage and the ii
\* recursion it comes from.
C3_ExclusiveIrregularsPreemptRegulars ==
    \A p \in Returned :
        HasExclusiveIrregAt(l.lemmaHeap[p[1]], p[2].MorphoIndex) => ~p[2].regular

\* The form is a radical of the lemma followed by an ending of its model
\* at a slot an exclusive irregular of the lemma covers, and LemmatizeWord
\* returned no regular analysis for that lemma at that slot.
C3_Witness ==
    /\ op = "LemmatizeWord"
    /\ ~arg.sentenceStart
    /\ \E k \in 1..Len(l.lemmaHeap) : \E i \in 0..Len(arg.form) :
          LET lemma == l.lemmaHeap[k]
              r     == Take(arg.form, i)
              d     == Drop(arg.form, i)
          IN  /\ r \in DOMAIN l.radicals /\ d \in DOMAIN l.desinences
              /\ \E rad \in Range(l.radicals[r]) : \E de \in Range(l.desinences[d]) :
                    /\ rad.Lemma = k /\ de.Model = lemma.model /\ de.RadNum = rad.Num
                    /\ HasExclusiveIrregAt(lemma, de.MorphoNum)
                    /\ de.MorphoNum < Len(l.morphos)
              /\ \A p \in Returned : p[1] = k => ~p[2].regular

\* grq is rad.Grq + de.Grq for a radical rad of the lemma and an ending de
\* of its model with rad's number, or the Grq of an irregular of the lemma
\* whose slot list contains mn.
IsFormOf(lemma, grq, mn) ==
    \/ \E rn \in DOMAIN lemma.radicals : \E rad \in Range(lemma.radicals[rn]) :
          \E d \in DOMAIN l.desinences : \E de \in Range(l.desinences[d]) :
              /\ de.Model = lemma.model
              /\ de.RadNum = rad.Num
              /\ grq = rad.Grq \o de.Grq
    \/ \E i \in 1..Len(lemma.irregs) :
          /\ grq = lemma.irregs[i].Grq
          /\ mn \in Range(lemma.irregs[i].Morphos)

RECURSIVE IsSubsequence(_, _)
\* s is t with some code points deleted.
IsSubsequence(s, t) ==
    IF s = <<>> THEN TRUE
    ELSE IF t = <<>> THEN FALSE
    ELSE IF Head(s) = Head(t) THEN IsSubsequence(Tail(s), Tail(t))
    ELSE IsSubsequence(s, Tail(t))

Occurrences(lsl, an) ==
    Cardinality({i \in 1..Len(lsl) :
        /\ lsl[i].FormWithMarks = an.FormWithMarks
        /\ lsl[i].MorphoDescription = an.MorphoDescription
        /\ lsl[i].MorphoIndex = an.MorphoIndex})

SameAnalyses(a, b) ==
    /\ DOMAIN a = DOMAIN b
    /\ \A lemma \in DOMAIN a :
          \A an \in Range(a[lemma]) \cup Range(b[lemma]) :
              Occurrences(a[lemma], an) = Occurrences(b[lemma], an)

\* C7: two calls of LemmatizeWord with the same arguments on the same
\* Analyzer return the same lemmas with the same multiset of Analyses for
\* each, also when several assimilation keys are prefixes of the form or
\* several contraction keys suffixes of it.
C7_LemmatizeWordIsAFunction ==
    op = "LemmatizeWordAgain" => SameAnalyses(ret[1].res, ret[2].res)

\* C8: LemmatizeWord, LemmatizeText and InflectionTable leave the whole
\* Analyzer as New built it: no step of a query changes l.
C8_QueriesLeaveTheAnalyzerUnchanged == [][l' = l]_vars

\* A second query answered, with analyses, by the Analyzer as New built it.
C8_Witness ==
    /\ op \in {"LemmatizeCell", "LemmatizeText"}
    /\ \E x \in Answers : DOMAIN x.res # {}
    /\ l = New(src)

\* C11: the queries never fail.  LemmatizeWord of the empty string, and of
\* a form for which the raw matcher returns nothing at any stage of the
\* cascade, returns an empty map; Morpho(m) returns the empty string for
\* every m below 1 or above the number of descriptions loaded; Lemma(key)
\* returns nil for a key whose normalized form is not a key of the lexicon.
C11_QueriesNeverFail ==
    /\ op \in {"LemmatizeWord", "LemmatizeWordAgain", "LemmatizeCell"} =>
          \A x \in Answers : (arg.form = <<>> \/ ~x.matched) => x.res = NoMap
    /\ op = "Morpho" =>
          ((arg.m < 1 \/ arg.m > Len(l.morphos) - 1) => ret[1] = <<>>)
    /\ op = "Lemma" =>
          (NormalizeKey(arg.key) \notin DOMAIN l.lemmas => ret[1] = 0)

\* A word that is not empty went through every stage of the cascade, its
\* capitalized form included, matched nothing and got an empty map.
C11_Witness ==
    /\ op = "LemmatizeWord"
    /\ arg.form # <<>>
    /\ ~ret[1].matched
    /\ ret[1].res = NoMap
    /\ ret[1].depth >= 6
    /\ ~ret[1].cut

\* C13: in InflectionTable, if the lemma has an exclusive irregular whose
\* slot list contains a slot s of its model, the cell of s is the list of
\* the Grq of that irregular alone, also when a non-exclusive irregular of
\* the lemma lists s.
C13_ExclusiveIrregularIsTheCell ==
    (op = "InflectionTable" /\ ret[1].Lemma # 0) =>
        LET lemma == l.lemmaHeap[ret[1].Lemma]
            m     == l.modelHeap[lemma.model]
        IN  \A s \in DOMAIN m.Desinences : \A i \in 1..Len(lemma.irregs) :
                (lemma.irregs[i].Exclusive /\ s \in Range(lemma.irregs[i].Morphos)) =>
                    /\ s \in DOMAIN ret[1].Cells
                    /\ ret[1].Cells[s] = <<lemma.irregs[i].Grq>>

----------------------------------------------------------------------------
(* Claims about ListI (SpecListI).                                         *)

\* What an item denotes: the number, or the numbers from the first bound to
\* the second in increasing order.
Denoted(item) ==
    IF Len(item) = 1 THEN <<item[1]>>
    ELSE [i \in 1..(item[2] - item[1] + 1) |-> item[1] + i - 1]

\* C15: ListI of a comma-separated list of items, each a slot number or
\* a-b (numbers written in decimal digits, as slots are), returns in the
\* order of the items the number itself for a single item and every number
\* of the interval a..b in increasing order for a range item, none when
\* b < a, and nothing else.
C15_ListIDenotesTheItems ==
    op = "ListI" => ret = Flatten(MapSeq(src.items, Denoted))

\* A range of several slots followed by a single slot, read back.
C15_Witness ==
    /\ op = "ListI"
    /\ Len(src.items) = 2
    /\ Len(src.items[1]) = 2 /\ src.items[1][2] >= src.items[1][1] + 2
    /\ Len(src.items[2]) = 1
    /\ Len(ret) >= 4
    /\ ret[Len(ret)] = src.items[2][1]

----------------------------------------------------------------------------
(* Claims about the inflection tables (SpecTable).                         *)

NoDuplicates(ss) == \A i, j \in 1..Len(ss) : ss[i] = ss[j] => i = j

RECURSIVE FirstSeen(_)
\* ss less every string that occurs earlier in it.
FirstSeen(ss) ==
    IF ss = <<>> THEN <<>>
    ELSE <<Head(ss)>> \o FirstSeen(SelectSeq(Tail(ss), LAMBDA f : f # Head(ss)))

\* The non-exclusive irregular of the lemma at slot s, as a list.
IrregularFirst(lemma, s) ==
    LET irr == irregAt(lemma, s) IN IF irr[1] # <<>> /\ ~irr[2] THEN <<irr[1]>> ELSE <<>>

\* The regular forms of slot s: radical after radical in increasing
\* radical number, and for each radical the endings of its number in the
\* order of their declaration.
RadicalMajor(lemma, m, s) ==
    LET rads == Flatten([i \in 1..Cardinality(DOMAIN lemma.radicals) |->
                    lemma.radicals[SortedSeq(DOMAIN lemma.radicals)[i]]])
    IN  Flatten(MapSeq(rads, LAMBDA rad :
            MapSeq(SelectSeq(DesinencesAt(m, s), LAMBDA d : d.RadNum = rad.Num),
                   LAMBDA d : rad.Grq \o d.Grq)))

\* The regular forms of slot s: ending after ending in the order of their
\* declaration, and for each ending the radicals of its number in the
\* order of the lemma's list.
EndingMajor(lemma, m, s) ==
    Flatten(MapSeq(DesinencesAt(m, s), LAMBDA d :
        MapSeq(RadicalsAt(lemma, d.RadNum), LAMBDA rad : rad.Grq \o d.Grq)))

\* The cells of the table returned that no exclusive irregular decides.
OpenCells ==
    IF op = "InflectionTable" /\ ret[1].Lemma # 0
    THEN {s \in DOMAIN ret[1].Cells : ~irregAt(l.lemmaHeap[ret[1].Lemma], s)[2]}
    ELSE {}

\* C14 as stated: each cell has no duplicate and holds the non-exclusive
\* irregular first, then the regular forms grouped by radical in increasing
\* radical number, the endings of one radical in declaration order.
C14_CellGroupedByRadical ==
    \A s \in OpenCells :
        LET lemma == l.lemmaHeap[ret[1].Lemma]
            m     == l.modelHeap[lemma.model]
        IN  /\ NoDuplicates(ret[1].Cells[s])
            /\ ret[1].Cells[s] = FirstSeen(IrregularFirst(lemma, s) \o RadicalMajor(lemma, m, s))

\* C14 amended: each cell has no duplicate and holds, each form at its
\* first occurrence, the non-exclusive irregular first, then the regular
\* forms grouped by ending in the order the endings of the slot were
\* declared, and for one ending the radicals of its number in the order of
\* the lemma's list.
C14_CellGroupedByEnding ==
    \A s \in OpenCells :
        LET lemma == l.lemmaHeap[ret[1].Lemma]
            m     == l.modelHeap[lemma.model]
        IN  /\ NoDuplicates(ret[1].Cells[s])
            /\ ret[1].Cells[s] = FirstSeen(IrregularFirst(lemma, s) \o EndingMajor(lemma, m, s))

\* A cell that starts with the irregular, which is also a regular form and
\* is listed once, and holds a form of radical 2 before one of radical 1.
C14_Witness ==
    \E s \in OpenCells :
        LET lemma == l.lemmaHeap[ret[1].Lemma]
            m     == l.modelHeap[lemma.model]
            cell  == ret[1].Cells[s]
        IN  /\ IrregularFirst(lemma, s) # <<>>
            /\ cell[1] = IrregularFirst(lemma, s)[1]
            /\ cell[1] \in Range(EndingMajor(lemma, m, s))
            /\ Len(cell) < Len(EndingMajor(lemma, m, s)) + 1
            /\ \E i, j \in 1..Len(cell) :
                  /\ i < j
                  /\ cell[i] \in {rad.Grq \o <<"i">> : rad \in Range(RadicalsAt(lemma, 2))}
                  /\ cell[j] \in {rad.Grq \o <<"a">> : rad \in Range(RadicalsAt(lemma, 1))}


\* The maps lemmatizeMEtape may return at stage etape.
StageResults(form, sentenceStart, etape) ==
    {x.res : x \in lemmatizeMEtape(l, form, sentenceStart, etape, MaxDepth)}

\* The form that stage 1 lemmatizes when it strips the k-th enclitic.
Stripped(form, k) ==
    LET sf == Take(form, Len(form) - Len(enclitics[k]))
    IN  IF enclitics[k] = <<"s", "t">> THEN sf \o <<"s">> ELSE sf

\* The k-th enclitic is a suffix of the form and the stage-1 result of the
\* stripped form is not empty.
EncliticFound(form, sentenceStart, k) ==
    /\ HasSuffix(form, enclitics[k])
    /\ StageResults(Stripped(form, k), sentenceStart, 1) # {NoMap}

Calls == UNION {x.calls : x \in Answers}

\* C16 as stated: every call that lemmatizeMEtape makes to itself passes a
\* stage larger than its own.
C16_StageStrictlyIncreases ==
    \A c \in Calls : c.to.etape > c.from.etape

\* C16 amended: every call that lemmatizeMEtape makes to itself passes a
\* larger stage, or is made at stage 1 for stage 1 on a form that is
\* strictly shorter (an enclitic stripped), or is made at stage 4 with
\* sentence_start true for stage 4 on the lowercased form with
\* sentence_start false.
C16_StageOrFormOrSentenceStartDecreases ==
    \A c \in Calls :
        \/ c.to.etape > c.from.etape
        \/ /\ c.from.etape = 1 /\ c.to.etape = 1
           /\ Len(c.to.form) < Len(c.from.form)
           /\ c.to.sentenceStart = c.from.sentenceStart
        \/ /\ c.from.etape = 4 /\ c.to.etape = 4
           /\ c.from.sentenceStart /\ ~c.to.sentenceStart
           /\ c.to.form = ToLower(c.from.form)

\* LemmatizeWord at the start of a sentence stripped an enclitic (a call
\* from stage 1 for stage 1), retried a capitalized form in lower case (a
\* call from stage 4 for stage 4) and found analyses.
C16_Witness ==
    /\ op = "lemmatizeMEtape" /\ arg.etape = 0
    /\ \E c \in Calls : c.from.etape = 1 /\ c.to.etape = 1
    /\ \E c \in Calls : c.from.etape = 4 /\ c.to.etape = 4
    /\ ret[1].res # NoMap
    /\ ~ret[1].cut

\* The forms the call whose answer is ret[1] itself passed on, each with
\* the stage it passed.
OwnCalls == {<<c.to.form, c.to.etape>> : c \in {d \in ret[1].calls : d.from = arg}}

\* The map res holds, lemma by lemma, the analyses of base first.
StartsWithMap(res, base) ==
    \A k \in DOMAIN base :
        /\ k \in DOMAIN res
        /\ Len(res[k]) >= Len(base[k])
        /\ Take(res[k], Len(base[k])) = base[k]

\* The stage-3 result of F with the stage-3 result of f appended.
Stage3Merged(F, f, sentenceStart) ==
    {mergeInto(base, added) :
        base \in StageResults(F, sentenceStart, 3), added \in StageResults(f, sentenceStart, 3)}

\* C20: at stage 2 the result holds the stage-3 result of the form F
\* itself; when assimilation changes F (F starts with a key of the table,
\* replaced by its value), stage 2 lemmatizes F and the assimilated form at
\* stage 3, returns the first result with the second appended and does not
\* lemmatize the de-assimilated form; the de-assimilated form (a value at
\* the start of F replaced by its key) is lemmatized only when
\* assimilation left F unchanged.  The empty form is lemmatized at no
\* stage and has the empty result.
C20_AssimilationThenDeassimilation ==
    (op = "lemmatizeMEtape" /\ arg.etape = 2) =>
        LET F   == arg.form
            ss  == arg.sentenceStart
            res == ret[1].res
        IN  /\ \E base \in StageResults(F, ss, 3) : StartsWithMap(res, base)
            /\ \/ \E fa \in assim(l, F) \ {F} :
                      /\ OwnCalls = {<<F, 3>>, <<fa, 3>>}
                      /\ res \in Stage3Merged(F, fa, ss)
               \/ /\ F \in assim(l, F)
                  /\ \E fd \in desassim(l, F) \ {F} :
                        /\ OwnCalls = {<<F, 3>>, <<fd, 3>>}
                        /\ res \in Stage3Merged(F, fd, ss)
               \/ /\ F \in assim(l, F) /\ F \in desassim(l, F)
                  /\ OwnCalls = {<<F, 3>>}
                  /\ res \in StageResults(F, ss, 3)
               \/ /\ F = <<>>
                  /\ OwnCalls = {}
                  /\ res = NoMap

\* The form s is no word; it starts with the key s, assimilated to ta, and
\* with the value s, de-assimilated to tas; ta and tas are both words.
\* Stage 2 returned the analyses of ta and never lemmatized tas.
C20_Witness ==
    /\ op = "lemmatizeMEtape" /\ arg.etape = 2
    /\ StageResults(arg.form, arg.sentenceStart, 3) = {NoMap}
    /\ \E fa \in assim(l, arg.form) \ {arg.form} :
          /\ <<fa, 3>> \in OwnCalls
          /\ NoMap \notin StageResults(fa, arg.sentenceStart, 3)
    /\ \E fd \in desassim(l, arg.form) \ {arg.form} :
          /\ <<fd, 3>> \notin OwnCalls
          /\ NoMap \notin StageResults(fd, arg.sentenceStart, 3)
    /\ ret[1].res # NoMap
    /\ ~ret[1].cut

\* The form with its first code point capitalized.
Capitalized(form) == <<ToUpperRune(form[1])>> \o Tail(form)

\* C22: at stage 0, when the stage-1 result of the form is not empty it is
\* returned unchanged and the capitalized form is not lemmatized; when it is
\* empty and the first code point is lowercase, the result is the stage-1
\* result of the capitalized form taken with sentence_start false; when it
\* is empty and the first code point is not lowercase, the result is empty.
C22_ProperNounFallback ==
    (op = "lemmatizeMEtape" /\ arg.etape = 0 /\ arg.form # <<>>) =>
        LET F      == arg.form
            stage1 == StageResults(F, arg.sentenceStart, 1)
            own    == {c.to : c \in {d \in ret[1].calls : d.from = arg}}
            first  == etapeArgs(F, arg.sentenceStart, 1)
            retry  == etapeArgs(Capitalized(F), FALSE, 1)
        IN  \/ /\ ret[1].res # NoMap
               /\ ret[1].res \in stage1
               /\ own = {first}
            \/ /\ NoMap \in stage1 /\ IsLower(F[1])
               /\ own = {first, retry}
               /\ ret[1].res \in StageResults(Capitalized(F), FALSE, 1)
            \/ /\ NoMap \in stage1 /\ ~IsLower(F[1])
               /\ own = {first}
               /\ ret[1].res = NoMap

\* LemmatizeWord on sa at the start of a sentence: stage 1 finds nothing,
\* Sa is lemmatized with sentence_start false and its analyses returned.
C22_Witness ==
    /\ op = "lemmatizeMEtape" /\ arg.etape = 0 /\ arg.sentenceStart
    /\ arg.form # <<>> /\ IsLower(arg.form[1])
    /\ StageResults(arg.form, TRUE, 1) = {NoMap}
    /\ [from |-> arg, to |-> etapeArgs(Capitalized(arg.form), FALSE, 1)] \in ret[1].calls
    /\ ret[1].res # NoMap
    /\ ~ret[1].cut

\* The map the raw matcher returns for the form.
RawResult(form) == lemmatizeRaw(l, form, MaxDoubleI).res

\* C21: at stage 4, when sentence_start is true and the form starts with
\* an uppercase code point, the result is the raw match of the form with
\* the stage-4 result of the lowercased form, taken with sentence_start
\* false, appended; otherwise it is the raw match alone.  When
\* sentence_start is false no call at any stage passes a lowercased form.
C21_LowercaseRetryAtSentenceStartOnly ==
    op = "lemmatizeMEtape" =>
        /\ (arg.etape = 4 /\ arg.form # <<>>) =>
              IF arg.sentenceStart /\ IsUpper(arg.form[1])
              THEN /\ OwnCalls = {<<ToLower(arg.form), 4>>}
                   /\ \A c \in Calls : ~c.to.sentenceStart
                   /\ ret[1].res \in
                        {mergeInto(RawResult(arg.form), low) :
                            low \in StageResults(ToLower(arg.form), FALSE, 4)}
              ELSE /\ OwnCalls = {}
                   /\ ret[1].res = RawResult(arg.form)
        /\ ~arg.sentenceStart =>
              \A c \in Calls :
                  /\ ~c.to.sentenceStart
                  /\ ~(c.from.etape = 4 /\ c.to.etape = 4)
                  /\ c.to.form = ToLower(c.from.form) => c.to.form = c.from.form

\* Stage 4 at the start of a sentence on Ta: the raw matcher finds nothing
\* for Ta, the lowercased form ta is a word, and its analyses were
\* returned.
C21_Witness ==
    /\ op = "lemmatizeMEtape" /\ arg.etape = 4 /\ arg.sentenceStart
    /\ arg.form # <<>> /\ IsUpper(arg.form[1])
    /\ RawResult(arg.form) = NoMap
    /\ ret[1].res # NoMap
    /\ ret[1].res \in StageResults(ToLower(arg.form), FALSE, 4)
    /\ ~ret[1].cut

\* The call c strips an enclitic (stage 1 calling stage 1) or capitalizes
\* the form (stage 0 calling stage 1 on another form).
IsFallbackCall(c) ==
    \/ c.from.etape = 1 /\ c.to.etape = 1
    \/ c.from.etape = 0 /\ c.to.etape = 1 /\ c.to.form # c.from.form

\* C28: the result of LemmatizeWord(form, sentence_start) holds, under the
\* same lemma, every Analysis that the raw matcher produces for the form
\* itself; a form whose enclitic is stripped or whose first letter is
\* capitalized is one for which the raw matcher produces nothing.
C28_DirectMatchKept ==
    (op = "lemmatizeMEtape" /\ arg.etape = 0) =>
        /\ \A k \in DOMAIN RawResult(arg.form) :
              /\ k \in DOMAIN ret[1].res
              /\ \A i \in 1..Len(RawResult(arg.form)[k]) :
                    \E j \in 1..Len(ret[1].res[k]) :
                        ret[1].res[k][j] = RawResult(arg.form)[k][i]
        /\ \A c \in ret[1].calls :
              IsFallbackCall(c) => RawResult(c.from.form) = NoMap

\* LemmatizeWord on tane: the raw matcher finds the irregular tane, the
\* result holds it, and the enclitic ne was not stripped.
C28_Witness ==
    /\ op = "lemmatizeMEtape" /\ arg.etape = 0
    /\ \E k \in 1..Len(enclitics) : HasSuffix(arg.form, enclitics[k])
    /\ RawResult(arg.form) # NoMap
    /\ StartsWithMap(ret[1].res, RawResult(arg.form))
    /\ \A c \in ret[1].calls : ~IsFallbackCall(c)
    /\ ~ret[1].cut

\* LemmatizeWord on sane: the raw matcher finds nothing for sane, the
\* enclitic is stripped, nothing is found for sa, and the capitalized
\* forms are lemmatized.
C28_FallbacksTried ==
    /\ op = "lemmatizeMEtape" /\ arg.etape = 0
    /\ RawResult(arg.form) = NoMap
    /\ \E c \in ret[1].calls : c.from = etapeArgs(arg.form, arg.sentenceStart, 1) /\ c.to.etape = 1
    /\ \E c \in ret[1].calls : c.from = arg /\ IsFallbackCall(c)
    /\ ret[1].res # NoMap

----------------------------------------------------------------------------
(* Claims about the raw matcher (SpecRaw).                                 *)

\* The splits the raw matcher went through, the recursive calls included.
Splits == UNION {x.splits : x \in Answers}

EndsIn(s, c) == Len(s) > 0 /\ s[Len(s)] = c

StartsWith(s, c) == Len(s) > 0 /\ s[1] = c

\* How many of the conditions (a), (b), (c) hold of a stem and an ending.
ConditionsHolding(stem, ending) ==
    LET a == ending = <<>> /\ EndsIn(stem, "i")
        b == /\ StartsWith(ending, "i") /\ ~HasPrefix(ending, <<"i", "i">>)
             /\ ~EndsIn(stem, "i")
        c == /\ EndsIn(stem, "i") /\ ~HasSuffix(stem, <<"i", "i">>)
             /\ ~StartsWith(ending, "i")
    IN  (IF a THEN 1 ELSE 0) + (IF b THEN 1 ELSE 0) + (IF c THEN 1 ELSE 0)

\* C17 as stated: at a split of the raw matcher the ii recursion on
\* stem + "i" + ending is made if and only if exactly one of (a), (b), (c)
\* holds.
C17_RecursionIffExactlyOne ==
    \A sp \in Splits : sp.ii <=> ConditionsHolding(sp.stem, sp.ending) = 1

\* C17 amended: at a split of the raw matcher the ii recursion on
\* stem + "i" + ending is made if and only if the stem is a key of the
\* radical index and at least one of (a), (b), (c) holds.
C17_RecursionIffKeyAndSomeCondition ==
    \A sp \in Splits :
        sp.ii <=> (sp.stem \in DOMAIN l.radicals /\ ConditionsHolding(sp.stem, sp.ending) >= 1)

\* The raw matcher made the recursion at a split where (a) and (c) both
\* hold (tui and no ending) and at one where (a) alone holds (tuii and no
\* ending), and none at a split where (b) holds of a stem that is no key of
\* the radical index (tu and i).
C17_Witness ==
    /\ op = "lemmatizeRaw"
    /\ \E sp \in Splits : sp.ii /\ ConditionsHolding(sp.stem, sp.ending) = 2
    /\ \E sp \in Splits : sp.ii /\ ConditionsHolding(sp.stem, sp.ending) = 1
    /\ \E sp \in Splits :
          /\ ~sp.ii /\ sp.stem \notin DOMAIN l.radicals
          /\ ConditionsHolding(sp.stem, sp.ending) = 1
    /\ ~ret[1].cut

\* C18: every regular Analysis the raw matcher returns for the form F
\* satisfies the vowel-quantity condition of the counts of v, ae and oe
\* ligatures of F itself, the analyses folded in from the ii recursion
\* included.
C18_VowelQuantityOfTheForm ==
    op = "lemmatizeRaw" =>
        \A p \in Returned :
            p[2].regular => vowelsOK(vowelCounts(arg.form), [Grq |-> p[2].rad], [Grq |-> p[2].des])

----------------------------------------------------------------------------
(* Claims about the absent set of a model (SpecModels).                    *)

\* The slots a block declares absent for itself: those of its abs+: lines
\* and of its last abs: line, an abs: line dropping what came before it.
OwnAbsents(block) ==
    LET listing == {j \in 1..Len(block) : block[j][1] \in {"abs", "abs+"} /\ Len(block[j]) >= 2}
        kept    == {j \in listing :
                      \A k \in listing : (k > j) => block[k][1] = "abs+"}
    IN  UNION {Range(ListI(block[j][2])) : j \in kept}

\* C19: after compilation of a model with a parent, every slot the
\* model's own abs:, abs+: lines declared absent is in its absent set, and
\* so is every slot of its parent's absent set.
C19_AbsentsMergedFromParent ==
    Compiled =>
        \A k \in ModelPtrs :
            LET m     == l.modelHeap[k]
                block == BlocksOf(src.models)[k] IN
            m.parent # 0 =>
                /\ \A s \in OwnAbsents(block) : isAbsent(m, s)
                /\ \A s \in Range(Parent(l, m).Absents) : isAbsent(m, s)

----------------------------------------------------------------------------
(* Claims about the suf: directive (SpecModels).                           *)

\* The Lemmatizer as it was when the k-th block of the file was compiled.
BeforeBlock(k) ==
    loadModels(EmptyLemmatizer, Flatten(Take(BlocksOf(src.models), k - 1)))

\* The Model of the k-th block after its directives and inheritance, before
\* any suffixing.
AfterInheritance(k) == beforeSuffixes(BeforeBlock(k), k, BlocksOf(src.models)[k]).m

\* The suf: lines of a block that have their three fields, in order.
SufLines(block) == SelectSeq(block, LAMBDA line : line[1] = "suf" /\ Len(line) >= 3)

\* How many times the range of a suf: line lists the slot s.
TimesListed(line, s) == Len(SelectSeq(ListI(line[2]), LAMBDA mn : mn = s))

\* The endings base, each with S appended to its Grq, owned by model k.
WithSuffix(base, S, k) ==
    MapSeq(base, LAMBDA d : newDesinence(d.Grq \o S, d.MorphoNum, d.RadNum, k))

\* What the suf: lines of the block add at slot s: for each line, in order,
\* and each time its range lists s, the endings base with the suffix of the
\* line.
Suffixed(block, base, s, k) ==
    Flatten(MapSeq(SufLines(block), LAMBDA line :
        Flatten([i \in 1..TimesListed(line, s) |-> WithSuffix(base, line[3], k)])))

\* C23: after compilation, the endings of a model at every slot are the
\* endings it had at that slot after its other directives and inheritance
\* (own, des+, sufd and inherited endings), all kept, followed by one
\* ending grq + S for each of them and each suf:RANGE:S line whose RANGE
\* lists the slot; an ending produced by a suf: line is never suffixed by
\* another.
C23_SuffixesAppliedOnceAfterInheritance ==
    Compiled =>
        \A k \in ModelPtrs :
            LET m     == l.modelHeap[k]
                base  == AfterInheritance(k)
                block == BlocksOf(src.models)[k] IN
            /\ DOMAIN m.Desinences = DOMAIN base.Desinences
            /\ \A s \in DOMAIN m.Desinences :
                  m.Desinences[s] = base.Desinences[s] \o Suffixed(block, base.Desinences[s], s, k)

\* A child with two suf: lines for slots it inherits from its parent: each
\* inherited ending is there once as it was and twice suffixed, and none
\* carries the suffix twice.
C23_Witness ==
    /\ Compiled
    /\ \E k \in ModelPtrs :
          LET m     == l.modelHeap[k]
              base  == AfterInheritance(k)
              block == BlocksOf(src.models)[k] IN
          /\ m.parent # 0
          /\ Len(SufLines(block)) = 2
          /\ DeclaredSlots(block) = {}
          /\ 1 \in DOMAIN base.Desinences
          /\ \A dp \in Range(Parent(l, m).Desinences[1]) : HasCloneOf(base, 1, dp)
          /\ Len(m.Desinences[1]) = 3 * Len(base.Desinences[1])
          /\ \A d \in Range(m.Desinences[1]) : ~HasSuffix(d.Grq, <<"t", "t">>)

----------------------------------------------------------------------------
(* Claims about the radical builder (SpecLexicon).                         *)

\* The whole lemmes file is read.
LexiconLoaded == op \in {"New", "loadLexiconLine"} /\ arg = <<>>

\* The canonical forms of a Lemma: the primary one, then the alternatives.
CanonicalForms(lemma) == <<lemma.Grq>> \o lemma.altGrqs

\* The radical strings the record gives for the radical number N (the
\* non-empty comma-separated items of its field N + 2).
GivenRadicals(parts, N) ==
    IF N \notin {1, 2} THEN <<>>
    ELSE SelectSeq(Split(parts[N + 2], ","), LAMBDA radStr : radStr # <<>>)

\* The stem the rule derives from a canonical form: the form less a
\* trailing combining breve for rule K; else that less its last n code
\* points, followed by the suffix unless the suffix is "0".
DerivedStem(G, rule) ==
    LET G1     == IF G # <<>> /\ G[Len(G)] = "<^>" THEN SubSeq(G, 1, Len(G) - 1) ELSE G
        comma  == Index(rule, ",")
        nStr   == IF comma < 0 THEN rule ELSE SubSeq(rule, 1, comma)
        suffix == IF comma < 0 THEN <<"0">> ELSE SubSeq(rule, comma + 2, Len(rule))
        kept   == IF Atoi(nStr) >= Len(G1) THEN <<>> ELSE SubSeq(G1, 1, Len(G1) - Atoi(nStr))
    IN  IF rule = <<"K">> THEN G1
        ELSE IF suffix = <<"0">> THEN kept ELSE kept \o suffix

\* The radical r is in the global radical index.
Indexed(r) ==
    /\ Deramise(r.Gr) \in DOMAIN l.radicals
    /\ r \in Range(l.radicals[Deramise(r.Gr)])

\* C24: once the lexicon is loaded, for every lemma with a model and every
\* radical number N that has a rule in the model: when the record gives
\* radicals for N, the radicals of the lemma for N are those and none is
\* derived; otherwise the lemma has for N exactly one radical per canonical
\* form, in order, got from the form by the rule.  Every radical of the
\* lemma is in the global radical index.
C24_RadicalsGivenOrDerived ==
    LexiconLoaded =>
        \A k \in 1..Len(l.lemmaHeap) :
            LET lemma == l.lemmaHeap[k]
                parts == src.lemmes[k] IN
            lemma.model # 0 =>
                /\ \A N \in DOMAIN l.modelHeap[lemma.model].RadicalRules :
                      LET rule  == l.modelHeap[lemma.model].RadicalRules[N]
                          given == GivenRadicals(parts, N)
                          forms == CanonicalForms(lemma)
                          rads  == RadicalsAt(lemma, N) IN
                      IF given # <<>>
                      THEN /\ Len(rads) = Len(given)
                           /\ \A i \in 1..Len(rads) : rads[i].Gr = Atone(given[i])
                      ELSE /\ Len(rads) = Len(forms)
                           /\ \A i \in 1..Len(rads) :
                                 /\ rads[i].Gr = Atone(DerivedStem(forms[i], rule))
                                 /\ rads[i].Grq = Communes(DerivedStem(forms[i], rule))
                /\ \A N \in DOMAIN lemma.radicals : \A r \in Range(lemma.radicals[N]) :
                      /\ r.Num = N /\ r.Lemma = k
                      /\ Indexed(r)

\* A lexicon with a lemma whose record gives the radical s for number 1
\* and whose form ends in a breve, and a lemma with an alternative form:
\* the first has s alone for number 1 and the derived ta and s for numbers
\* 2 and 3, the second has two derived radicals for each number.
C24_Witness ==
    /\ LexiconLoaded
    /\ \E k \in 1..Len(l.lemmaHeap) :
          LET lemma == l.lemmaHeap[k] IN
          /\ lemma.model # 0
          /\ GivenRadicals(src.lemmes[k], 1) = <<<<"s">>>>
          /\ HasSuffix(lemma.Grq, <<"<^>">>)
          /\ Len(RadicalsAt(lemma, 1)) = 1
          /\ RadicalsAt(lemma, 1)[1].Gr = <<"s">>
          /\ RadicalsAt(lemma, 2)[1].Gr = <<"t", "a">>
          /\ RadicalsAt(lemma, 3)[1].Gr = <<"s">>
    /\ \E k \in 1..Len(l.lemmaHeap) :
          LET lemma == l.lemmaHeap[k] IN
          /\ lemma.model # 0
          /\ Len(CanonicalForms(lemma)) = 2
          /\ \A N \in 1..3 : Len(RadicalsAt(lemma, N)) = 2
          /\ RadicalsAt(lemma, 1)[2].Gr = <<"t">>
          /\ RadicalsAt(lemma, 2)[2].Gr = <<"t", "o">>

\* C29: every lemma that is a key of the result of LemmatizeWord is the
\* lemma that Lemma returns for its own key, also when records of the
\* lexicon share a normalized key.
C29_ReturnedLemmaIsRegistered ==
    op = "LemmatizeWord" =>
        \A k \in DOMAIN ret[1].res : Lemma(l, l.lemmaHeap[k].Key) = k

----------------------------------------------------------------------------
(* Claims about the slots of the analyses (Spec).                          *)

\* C30: every Analysis of the result of LemmatizeWord, from a regular pair
\* or from an irregular, has its MorphoIndex within 1..N, N the number of
\* loaded morphological descriptions, and its MorphoDescription is
\* Morpho(MorphoIndex).
C30_SlotWithinMorphos ==
    op = "LemmatizeWord" =>
        \A k \in DOMAIN ret[1].res : \A i \in 1..Len(ret[1].res[k]) :
            LET an == ret[1].res[k][i] IN
            /\ an.MorphoIndex \in 1..(Len(l.morphos) - 1)
            /\ an.MorphoDescription = Morpho(l, an.MorphoIndex)

----------------------------------------------------------------------------
(* Claims about LemmatizeText (Spec).                                      *)

\* Some of the 5 code points of text before the position first (fewer when
\* the text is shorter) is one of . ! ? ; :
PunctuationWithin5CodePoints(text, first) ==
    \E p \in 1..(first - 1) : text[p] \in rePunct /\ first - p <= 5

\* C25: LemmatizeText returns one result per token, in the order of the
\* text, and the lemmatizer was called with sentence_start true for the
\* first token and for every token with one of . ! ? ; : among the 5 code
\* points before its start, with sentence_start false for every other.
C25_SentenceStartWithin5CodePoints ==
    op = "LemmatizeText" =>
        LET positions == FindAllStringIndex(arg.text, 1) IN
        /\ Len(ret[1]) = Len(positions)
        /\ \A i \in 1..Len(positions) :
              /\ ret[1][i].Token = SubSeq(arg.text, positions[i][1], positions[i][2])
              /\ ret[1][i].sentenceStart <=>
                    (i = 1 \/ PunctuationWithin5CodePoints(arg.text, positions[i][1]))

----------------------------------------------------------------------------
(* Claims about substituteVars (SpecVars).                                 *)

\* C26: substituteVars terminates for every directive line and every
\* variable table, also when the value of a variable refers to the
\* variable itself or to another that refers back to it: the loop is left
\* (or, here, the line outgrows MaxSubstLen code points).
C26_SubstituteVarsTerminates == <>(op # "substituteVars")

----------------------------------------------------------------------------
(* Claims about Communes (SpecCommunes).                                   *)

\* The unmarked vowels, each with its macron letter.
macronOf ==
    ("a" :> "<a->") @@ ("e" :> "<e->") @@ ("i" :> "<i->") @@ ("o" :> "<o->") @@
    ("u" :> "<u->") @@ ("y" :> "<y->")

\* The vowel at i is one Communes leaves unmarked: e directly after a
\* marked a or a long o, u directly after a long a, a long e or q, y
\* directly after a long a.
LeftUnmarked(s, i) ==
    /\ i > 1
    /\ \/ s[i] = "e" /\ s[i - 1] \in {"<a->", "<a^>", "<o->"}
       \/ s[i] = "u" /\ s[i - 1] \in {"<a->", "<e->", "q"}
       \/ s[i] = "y" /\ s[i - 1] = "<a->"

\* s with every unmarked vowel but those marked with macron then breve.
EveryVowelMarked(s) ==
    Flatten([i \in 1..Len(s) |->
        IF s[i] \in DOMAIN macronOf /\ ~LeftUnmarked(s, i)
        THEN <<macronOf[s[i]], "<^>">> ELSE <<s[i]>>])

\* C27: Communes marks every unmarked vowel of its input with the macron
\* then the combining breve, but e directly after a long or short marked a
\* or a long o, u directly after a long a, a long e or q, and y directly
\* after a long a; both vowels of ee, uu, yy are marked.
C27_CommunesMarksEveryVowel ==
    op = "Communes" => ret[1] = EveryVowelMarked(arg)

============================================================================
